---------------------------- MODULE Spec2Model ----------------------------
(***************************************************************************)
(* Approval consolidation of PendingChangesBot-ng:                         *)
(*   reviews/utils/approval_comment.py   (the comment builder)             *)
(*   reviews/utils/approval_processor.py (the orchestrator)                *)
(* and, of reviews/views.py, fetch_liftwing_predictions and fetch_diff,    *)
(* and the rule chain and ISBN check of reviews/autoreview.                *)
(*                                                                         *)
(* Python strings are sequences of one-character strings, so that          *)
(* rendering, joining, truncating and len() are computed and not assumed.  *)
(* A dict whose keys may be missing carries the set of keys it has.        *)
(* Each behaviour is one top-level call of the API with its inputs drawn   *)
(* from bounded sets.                                                      *)
(***************************************************************************)
EXTENDS Integers, Sequences, FiniteSets, TLC

(***************************************************************************)
(* Bounds of the model.                                                    *)
(***************************************************************************)
\* longest autoreview_results list handed to a single call
MaxLen == 3
\* most pages in the mapping handed to batch_process_pages
MaxPages == 2
\* length of the long comment_prefix (long enough to force truncation)
LongPrefixLen == 470
\* longest results list of a page handed to get_approval_statistics
MaxPageLen == 2
\* most revisions in one request to fetch_liftwing_predictions (more than
\* the pool has workers)
MaxRevisions == 11
\* longest request whose external calls end in every combination
MaxMixed == 3
\* most characters after the first eight of a string handed to
\* _validate_isbn_10
IsbnTailLen == 3
\* most requests to fetch_diff in one behaviour
MaxDiffRequests == 3

(***************************************************************************)
(* Text.                                                                   *)
(***************************************************************************)
RevIdLabel == <<"r","e","v","_","i","d"," ">>
ListSep == <<","," ">>
ApprovedBecause == <<" ","a","p","p","r","o","v","e","d"," ","b","e","c","a","u","s","e"," ">>
Period == <<".">>
Ellipsis == <<".",".",".">>
EmptyStr == <<>>
DefaultPrefix == <<"A","u","t","o","r","e","v","i","e","w",":"," ">>

ReasonBot == <<"U","s","e","r"," ","w","a","s"," ","a"," ","b","o","t">>
ReasonBotLower == <<"u","s","e","r"," ","w","a","s"," ","a"," ","b","o","t">>
ReasonRecognized == <<"T","h","e"," ","u","s","e","r"," ","i","s"," ","r","e","c","o","g","n","i","z","e","d"," ","a","s"," ","a"," ","b","o","t",".">>
ReasonOres == <<"O","R","E","S"," ","s","c","o","r","e"," ","g","o","o","d","f","a","i","t","h","=","0",".","5","3",","," ","d","a","m","a","g","i","n","g","=","0",".","2","5","1">>
ReasonBlocked == <<"U","s","e","r"," ","i","s"," ","b","l","o","c","k","e","d">>

\* the reasons an approved decision carries in the model
Reasons == {ReasonBot, ReasonRecognized, ReasonOres}

DigitChars == <<"0","1","2","3","4","5","6","7","8","9">>

\* str(n) of a non-negative int: its decimal digits
RECURSIVE Str(_)
Str(n) == IF n < 10 THEN <<DigitChars[n + 1]>>
          ELSE Str(n \div 10) \o <<DigitChars[(n % 10) + 1]>>

\* sep.join(parts)
RECURSIVE Join(_, _)
Join(sep, parts) ==
    IF Len(parts) = 0 THEN EmptyStr
    ELSE IF Len(parts) = 1 THEN parts[1]
    ELSE parts[1] \o sep \o Join(sep, Tail(parts))

\* a string of n copies of the character c
Repeat(c, n) == [i \in 1..n |-> c]

LongPrefix == Repeat("p", LongPrefixLen)
Prefixes == {DefaultPrefix, LongPrefix}

(***************************************************************************)
(* Data: one autoreview result {"revid": .., "decision": {"status": ..,    *)
(* "reason": ..}}.  keys is the set of keys the dict really has; a field   *)
(* whose key is missing holds a dummy that no operator reads.              *)
(***************************************************************************)
\* Python's None where an int is expected (revids are non-negative)
None == -1
RevIds == {12345, 12346, 12347}
Statuses == {"approve", "blocked", "manual"}
AllKeys == {"revid", "reason"}

Result(keys, revid, status, reason) ==
    [keys |-> keys, revid |-> revid, status |-> status, reason |-> reason]

\* the entries with every key present, and those with one key missing
WellFormedEntries ==
    {Result(AllKeys, id, "approve", r) : id \in RevIds, r \in Reasons}
    \cup {Result(AllKeys, id, s, ReasonBlocked) : id \in RevIds, s \in {"blocked", "manual"}}
MalformedEntries ==
    {Result({"reason"}, None, s, IF s = "approve" THEN ReasonBot ELSE ReasonBlocked) :
        s \in Statuses}
    \cup {Result({"revid"}, id, "approve", EmptyStr) : id \in RevIds}
Entries == WellFormedEntries \cup MalformedEntries

Range(s) == {s[i] : i \in 1..Len(s)}

\* revids are unique within a page (a missing revid counts as one slot)
DistinctRevids(results) ==
    \A i, j \in 1..Len(results) : i # j => results[i].revid # results[j].revid

ResultLists(maxLen) ==
    UNION {{l \in [1..n -> Entries] : DistinctRevids(l)} : n \in 0..maxLen}

(***************************************************************************)
(* approval_comment.py                                                     *)
(***************************************************************************)
\* mutant: the filter keeps whatever is not blocked
FilterOtherThanBlocked(results, status) ==
    SelectSeq(results, LAMBDA r : r.status # "blocked")

\* mutant: the filter keeps the revisions left to manual review as well
FilterWithManual(results, status) ==
    SelectSeq(results, LAMBDA r : r.status \in {status, "manual"})

\* [result for result in results
\*     if result.get("decision", {}).get("status") == status]
RECURSIVE Filter(_, _)
Filter(results, status) ==
    IF results = <<>> THEN <<>>
    ELSE IF results[1].status = status
         THEN <<results[1]>> \o Filter(Tail(results), status)
         ELSE Filter(Tail(results), status)

\* max(result["revid"] for result in approved): the largest revid
MaxRevid(revisions) ==
    CHOOSE m \in Range([i \in 1..Len(revisions) |-> revisions[i].revid]) :
        \A i \in 1..Len(revisions) : revisions[i].revid <= m

\* mutant: the revisions stay in the order they came in
Unsorted(revisions) == revisions

\* list.sort(key=revid): stable, ascending
RECURSIVE InsertByRevid(_, _)
InsertByRevid(sorted, e) ==
    IF sorted = <<>> THEN <<e>>
    ELSE IF sorted[Len(sorted)].revid <= e.revid THEN Append(sorted, e)
    ELSE Append(InsertByRevid(SubSeq(sorted, 1, Len(sorted) - 1), e), sorted[Len(sorted)])

RECURSIVE SortByRevid(_)
SortByRevid(revisions) ==
    IF revisions = <<>> THEN <<>>
    ELSE InsertByRevid(SortByRevid(SubSeq(revisions, 1, Len(revisions) - 1)),
                       revisions[Len(revisions)])

\* mutant: a revision joins any earlier group of its reason, adjacent or not
RECURSIVE GroupLoopByReason(_, _, _, _)
GroupLoopByReason(revisions, i, groups, current_group) ==
    IF i > Len(revisions) THEN Append(groups, current_group)
    ELSE IF revisions[i].reason = current_group.reason
         THEN GroupLoopByReason(revisions, i + 1, groups,
                  [current_group EXCEPT !.revisions = Append(@, revisions[i])])
    ELSE IF \E k \in 1..Len(groups) : groups[k].reason = revisions[i].reason
         THEN LET k == CHOOSE k \in 1..Len(groups) : groups[k].reason = revisions[i].reason
              IN  GroupLoopByReason(revisions, i + 1,
                      [groups EXCEPT ![k].revisions = Append(@, revisions[i])],
                      current_group)
    ELSE GroupLoopByReason(revisions, i + 1, Append(groups, current_group),
             [revisions |-> <<revisions[i]>>, reason |-> revisions[i].reason])

\* the for loop of _group_revisions_by_reason from index i on
RECURSIVE GroupLoop(_, _, _, _)
GroupLoop(revisions, i, groups, current_group) ==
    IF i > Len(revisions) THEN Append(groups, current_group)
    ELSE IF revisions[i].reason = current_group.reason
         THEN GroupLoop(revisions, i + 1, groups,
                        [current_group EXCEPT !.revisions = Append(@, revisions[i])])
         ELSE GroupLoop(revisions, i + 1, Append(groups, current_group),
                        [revisions |-> <<revisions[i]>>, reason |-> revisions[i].reason])

_group_revisions_by_reason(revisions) ==
    IF revisions = <<>> THEN <<>>
    ELSE GroupLoop(revisions, 2, <<>>,
                   [revisions |-> <<revisions[1]>>, reason |-> revisions[1].reason])

\* the reason text a clause is rendered with
ClauseReason(group) == group.reason

\* one comment part: "rev_id {ids} approved because {reason}"
CommentPart(group) ==
    LET rev_ids == [i \in 1..Len(group.revisions) |-> Str(group.revisions[i].revid)]
    IN  IF Len(rev_ids) = 1
        THEN RevIdLabel \o rev_ids[1] \o ApprovedBecause \o ClauseReason(group)
        ELSE RevIdLabel \o Join(ListSep, rev_ids) \o ApprovedBecause \o ClauseReason(group)

\* mutant: the joined parts are not terminated
NoTerminator == EmptyStr

\* the terminator appended to the joined parts
Terminator == Period

_build_consolidated_comment(revisions) ==
    IF revisions = <<>> THEN EmptyStr
    ELSE LET grouped_revisions == _group_revisions_by_reason(revisions)
             comment_parts == [g \in 1..Len(grouped_revisions) |->
                                  CommentPart(grouped_revisions[g])]
         IN  Join(ListSep, comment_parts) \o Terminator

\* what a call gives back: exc = "" and the returned pair, or the str() of
\* the exception it raised
Returned(revid, comment) == [exc |-> "", revid |-> revid, comment |-> comment]
Raised(exc) == [exc |-> exc, revid |-> None, comment |-> EmptyStr]

KeyErrorRevid == "'revid'"
KeyErrorReason == "'reason'"

\* mutant: the selection stops below the highest revision
RevisionsBelowHighest(approved_revisions, highest_rev_id) ==
    SortByRevid(SelectSeq(approved_revisions, LAMBDA r : r.revid < highest_rev_id))

\* the revisions selected for the comment: approved, revid <= highest, sorted
RevisionsToApprove(approved_revisions, highest_rev_id) ==
    SortByRevid(SelectSeq(approved_revisions, LAMBDA r : r.revid <= highest_rev_id))

generate_approval_comment(autoreview_results) ==
    IF autoreview_results = <<>> THEN Returned(None, EmptyStr)
    ELSE LET approved_revisions == Filter(autoreview_results, "approve")
         IN  IF approved_revisions = <<>> THEN Returned(None, EmptyStr)
             ELSE IF \E i \in 1..Len(approved_revisions) :
                        "revid" \notin approved_revisions[i].keys
                  THEN Raised(KeyErrorRevid)
             ELSE LET highest_rev_id == MaxRevid(approved_revisions)
                      revisions_to_approve ==
                          RevisionsToApprove(approved_revisions, highest_rev_id)
                  IN  IF \E i \in 1..Len(revisions_to_approve) :
                             "reason" \notin revisions_to_approve[i].keys
                      THEN Raised(KeyErrorReason)
                      ELSE Returned(highest_rev_id,
                                    _build_consolidated_comment(revisions_to_approve))

\* comment[:k] of Python: a negative k counts from the end
Slice(comment, k) ==
    IF k >= 0 THEN SubSeq(comment, 1, IF k < Len(comment) THEN k ELSE Len(comment))
    ELSE SubSeq(comment, 1, IF Len(comment) + k > 0 THEN Len(comment) + k ELSE 0)

\* the default of validate_comment_length's max_length
DefaultMaxLength == 500

\* mutant: the ellipsis is appended to max_length characters
validate_cutting_at_max_length(comment, max_length) ==
    IF Len(comment) <= max_length THEN comment
    ELSE Slice(comment, max_length) \o Ellipsis

validate_comment_length(comment, max_length) ==
    IF Len(comment) <= max_length THEN comment
    ELSE Slice(comment, max_length - 3) \o Ellipsis

\* a / b as a fraction in lowest terms (a Python float of a quotient of two
\* small ints is equal to another exactly when the fractions are)
RECURSIVE Gcd(_, _)
Gcd(a, b) == IF b = 0 THEN a ELSE Gcd(b, a % b)
Fraction(a, b) == [num |-> a \div Gcd(a, b), den |-> b \div Gcd(a, b)]
Zero == [num |-> 0, den |-> 1]

NoSummary ==
    [exc |-> "", total_revisions |-> 0, approved_count |-> 0, blocked_count |-> 0,
     approval_rate |-> Zero, highest_approved_revid |-> None]

\* mutant: the highest revid is taken over all results, approved or not
get_approval_summary_highest_of_all(autoreview_results) ==
    LET total_revisions == Len(autoreview_results)
        approved_revisions == Filter(autoreview_results, "approve")
        blocked_revisions == Filter(autoreview_results, "blocked")
    IN  IF \E i \in 1..Len(approved_revisions) : "revid" \notin approved_revisions[i].keys
        THEN [NoSummary EXCEPT !.exc = KeyErrorRevid]
        ELSE [exc |-> "",
              total_revisions |-> total_revisions,
              approved_count |-> Len(approved_revisions),
              blocked_count |-> Len(blocked_revisions),
              approval_rate |-> IF total_revisions > 0
                                THEN Fraction(Len(approved_revisions), total_revisions)
                                ELSE Zero,
              highest_approved_revid |-> IF autoreview_results = <<>> THEN None
                                         ELSE MaxRevid(autoreview_results)]

\* mutant: whatever is not approved is counted as blocked
get_approval_summary_rest_blocked(autoreview_results) ==
    LET total_revisions == Len(autoreview_results)
        approved_revisions == Filter(autoreview_results, "approve")
    IN  IF \E i \in 1..Len(approved_revisions) : "revid" \notin approved_revisions[i].keys
        THEN [NoSummary EXCEPT !.exc = KeyErrorRevid]
        ELSE [exc |-> "",
              total_revisions |-> total_revisions,
              approved_count |-> Len(approved_revisions),
              blocked_count |-> total_revisions - Len(approved_revisions),
              approval_rate |-> IF total_revisions > 0
                                THEN Fraction(Len(approved_revisions), total_revisions)
                                ELSE Zero,
              highest_approved_revid |-> IF approved_revisions = <<>> THEN None
                                         ELSE MaxRevid(approved_revisions)]

get_approval_summary(autoreview_results) ==
    LET total_revisions == Len(autoreview_results)
        approved_revisions == Filter(autoreview_results, "approve")
        blocked_revisions == Filter(autoreview_results, "blocked")
    IN  IF \E i \in 1..Len(approved_revisions) : "revid" \notin approved_revisions[i].keys
        THEN [NoSummary EXCEPT !.exc = KeyErrorRevid]
        ELSE [exc |-> "",
              total_revisions |-> total_revisions,
              approved_count |-> Len(approved_revisions),
              blocked_count |-> Len(blocked_revisions),
              approval_rate |-> IF total_revisions > 0
                                THEN Fraction(Len(approved_revisions), total_revisions)
                                ELSE Zero,
              highest_approved_revid |-> IF approved_revisions = <<>> THEN None
                                         ELSE MaxRevid(approved_revisions)]

(***************************************************************************)
(* approval_comment.py: the list objects of a call.  A comprehension binds *)
(* its name to a new list; list.sort() reorders the list it is called on.  *)
(***************************************************************************)
\* the lists when the call starts: the caller's list, and nothing bound yet
Lists(autoreview_results) ==
    [autoreview_results |-> autoreview_results, approved_revisions |-> <<>>,
     blocked_revisions |-> <<>>, revisions_to_approve |-> <<>>]

\* name = [result for result in ... if ...]
Bind(lists, name, value) == [lists EXCEPT ![name] = value]

\* mutant: the list handed in by the caller is the one that is sorted
sort_autoreview_results(lists, name) ==
    [lists EXCEPT !.autoreview_results = SortByRevid(lists.autoreview_results)]

\* name.sort(key=lambda x: x["revid"]), in place
sort(lists, name) == [lists EXCEPT ![name] = SortByRevid(lists[name])]

\* the lists when generate_approval_comment(autoreview_results) is over
generate_approval_comment_lists(autoreview_results) ==
    LET given == Lists(autoreview_results)
    IN  IF autoreview_results = <<>> THEN given
        ELSE LET filtered == Bind(given, "approved_revisions",
                                  Filter(given.autoreview_results, "approve"))
             IN  IF filtered.approved_revisions = <<>> THEN filtered
                 ELSE IF \E i \in 1..Len(filtered.approved_revisions) :
                            "revid" \notin filtered.approved_revisions[i].keys
                      THEN filtered
                 ELSE LET highest_rev_id == MaxRevid(filtered.approved_revisions)
                          selected ==
                              Bind(filtered, "revisions_to_approve",
                                   SelectSeq(filtered.approved_revisions,
                                             LAMBDA r : r.revid <= highest_rev_id))
                      IN  sort(selected, "revisions_to_approve")

\* the lists when get_approval_summary(autoreview_results) is over
get_approval_summary_lists(autoreview_results) ==
    LET given == Lists(autoreview_results)
        filtered == Bind(given, "approved_revisions",
                         Filter(given.autoreview_results, "approve"))
    IN  Bind(filtered, "blocked_revisions", Filter(filtered.autoreview_results, "blocked"))

(***************************************************************************)
(* approval_comment.py: _extract_approval_reason and _extract_ores_reason  *)
(***************************************************************************)
\* the string literals of the two functions
Text ==
    [goodfaith |-> <<"g","o","o","d","f","a","i","t","h">>,
     damaging |-> <<"d","a","m","a","g","i","n","g">>,
     ores_score |-> <<"O","R","E","S"," ","s","c","o","r","e"," ">>,
     threshold_met |-> <<"O","R","E","S"," ","s","c","o","r","e"," ","t","h","r","e","s","h","o","l","d"," ","m","e","t">>,
     was_a_bot |-> <<"u","s","e","r"," ","w","a","s"," ","a"," ","b","o","t">>,
     no_content_change_in_last_article |-> <<"n","o"," ","c","o","n","t","e","n","t"," ","c","h","a","n","g","e"," ","i","n"," ","l","a","s","t"," ","a","r","t","i","c","l","e">>,
     no_content_change |-> <<"n","o"," ","c","o","n","t","e","n","t"," ","c","h","a","n","g","e">>,
     was_auto_reviewed |-> <<"u","s","e","r"," ","w","a","s"," ","a","u","t","o","-","r","e","v","i","e","w","e","d">>,
     ores |-> <<"o","r","e","s">>,
     revert |-> <<"r","e","v","e","r","t"," ","t","o"," ","p","r","e","v","i","o","u","s","l","y"," ","r","e","v","i","e","w","e","d"," ","c","o","n","t","e","n","t">>]

\* str.lower()
UpperCase == <<"A","B","C","D","E","F","G","H","I","J","K","L","M","N","O","P","Q","R","S","T","U","V","W","X","Y","Z">>
LowerCase == <<"a","b","c","d","e","f","g","h","i","j","k","l","m","n","o","p","q","r","s","t","u","v","w","x","y","z">>
lower(text) ==
    [i \in 1..Len(text) |->
        IF \E k \in 1..Len(UpperCase) : UpperCase[k] = text[i]
        THEN LowerCase[CHOOSE k \in 1..Len(UpperCase) : UpperCase[k] = text[i]]
        ELSE text[i]]

\* mutant: the pattern is looked for at the start of the text only
StartsWith(pattern, text) ==
    /\ Len(pattern) <= Len(text)
    /\ SubSeq(text, 1, Len(pattern)) = pattern

\* pattern in text
In(pattern, text) ==
    \E i \in 1..(Len(text) - Len(pattern) + 1) : SubSeq(text, i, i + Len(pattern) - 1) = pattern

\* \s*: the first position from j on that holds no whitespace
RECURSIVE SkipWhitespace(_, _)
SkipWhitespace(text, j) ==
    IF j <= Len(text) /\ text[j] \in {" ", "\t", "\n"} THEN SkipWhitespace(text, j + 1) ELSE j
\* ([0-9.]+), greedy: the run of score characters from j on
RECURSIVE ScoreRun(_, _)
ScoreRun(text, j) ==
    IF j <= Len(text) /\ text[j] \in {"0", "1", "2", "3", "4", "5", "6", "7", "8", "9", "."} THEN <<text[j]>> \o ScoreRun(text, j + 1)
    ELSE <<>>
\* word[=:]\s*([0-9.]+) matches at position i, ignoring case
MatchesAt(word, text, i) ==
    /\ i + Len(word) <= Len(text)
    /\ lower(SubSeq(text, i, i + Len(word) - 1)) = word
    /\ text[i + Len(word)] \in {"=", ":"}
    /\ ScoreRun(text, SkipWhitespace(text, i + Len(word) + 1)) # <<>>
NoMatch == <<>>
\* re.search(word[=:]\s*([0-9.]+), reason, re.IGNORECASE): group(1) of the
\* leftmost match, or NoMatch
ScoreSearch(word, reason) ==
    LET at == {i \in 1..Len(reason) : MatchesAt(word, reason, i)}
    IN  IF at = {} THEN NoMatch
        ELSE LET i == CHOOSE i \in at : \A j \in at : i <= j
             IN  ScoreRun(reason, SkipWhitespace(reason, i + Len(word) + 1))

_extract_ores_reason(reason) ==
    LET goodfaith_match == ScoreSearch(Text.goodfaith, reason)
        damaging_match == ScoreSearch(Text.damaging, reason)
    IN  IF goodfaith_match # NoMatch /\ damaging_match # NoMatch
        THEN Text.ores_score \o Text.goodfaith \o <<"=">> \o goodfaith_match
             \o <<",", " ">> \o Text.damaging \o <<"=">> \o damaging_match
        ELSE IF goodfaith_match # NoMatch
        THEN Text.ores_score \o Text.goodfaith \o <<"=">> \o goodfaith_match
        ELSE IF damaging_match # NoMatch
        THEN Text.ores_score \o Text.damaging \o <<"=">> \o damaging_match
        ELSE Text.threshold_met


\* a decision dict: its keys and its reason
DecisionDict(keys, reason) == [keys |-> keys, reason |-> reason]

_extract_approval_reason(decision) ==
    LET reason == IF "reason" \in decision.keys THEN decision.reason ELSE EmptyStr
    IN  IF In(Text.was_a_bot, lower(reason)) THEN Text.was_a_bot
        ELSE IF In(Text.no_content_change, lower(reason))
        THEN Text.no_content_change_in_last_article
        ELSE IF In(Text.was_auto_reviewed, lower(reason)) THEN Text.was_auto_reviewed
        ELSE IF \/ In(Text.ores, lower(reason))
                \/ In(Text.goodfaith, lower(reason))
                \/ In(Text.damaging, lower(reason))
        THEN _extract_ores_reason(reason)
        ELSE IF In(Text.revert, lower(reason)) THEN Text.revert
        ELSE reason

\* the reasons handed to _extract_approval_reason: a core text, with
\* something before it and something after it or without
ReasonCores ==
    {<<"U","s","e","r"," ","w","a","s"," ","a"," ","b","o","t">>,
     <<"U","S","E","R"," ","W","A","S"," ","A"," ","B","O","T">>,
     <<"N","o"," ","c","o","n","t","e","n","t"," ","c","h","a","n","g","e"," ","i","n"," ","l","a","s","t"," ","a","r","t","i","c","l","e">>,
     <<"U","s","e","r"," ","w","a","s"," ","a","u","t","o","-","r","e","v","i","e","w","e","d">>,
     <<"O","R","E","S"," ","s","c","o","r","e"," ","g","o","o","d","f","a","i","t","h","=","0",".","5","3",","," ","d","a","m","a","g","i","n","g","=","0",".","2","5","1">>,
     <<"O","R","E","S"," ","s","c","o","r","e"," ","g","o","o","d","f","a","i","t","h","=","0",".","6","1">>,
     <<"O","R","E","S"," ","s","c","o","r","e"," ","d","a","m","a","g","i","n","g","=","0",".","1","9","8">>,
     <<"O","R","E","S"," ","s","c","o","r","e">>,
     <<"G","o","o","d","f","a","i","t","h",":"," ","0",".","9">>,
     <<"d","a","m","a","g","i","n","g","=">>,
     <<"d","a","m","a","g","i","n","g","="," ","G","O","O","D","F","A","I","T","H",":","7">>,
     <<"R","e","v","e","r","t"," ","t","o"," ","p","r","e","v","i","o","u","s","l","y"," ","r","e","v","i","e","w","e","d"," ","c","o","n","t","e","n","t">>,
     <<"R","e","s","t","o","r","e","s"," ","t","e","x","t">>,
     <<"U","s","e","r"," ","i","s"," ","b","l","o","c","k","e","d">>,
     <<"U","s","e","r"," ","w","a","s"," ","a"," ","b","o","t",","," ","O","R","E","S"," ","s","c","o","r","e"," ","g","o","o","d","f","a","i","t","h","=","1">>,
     EmptyStr}
DecisionInputs ==
    {DecisionDict({"reason"}, lead \o core \o trail) :
        lead \in {EmptyStr, <<"T","h","e"," ">>, <<"x">>}, core \in ReasonCores,
        trail \in {EmptyStr, <<".">>, <<" ","(","x",")">>}}
    \cup {DecisionDict({}, EmptyStr)}

(***************************************************************************)
(* approval_processor.py                                                   *)
(***************************************************************************)
\* what the external approve_revision does when it is called: it returns
\* {"result": "success"} or {"result": "error"}, or it raises
ApproveOutcomes == {"success", "error", "raise"}
ApproveRaisedMessage == "approve_revision failed"

\* one invocation of approve_revision(revid=, comment=, unapprove=)
ApproveCall(revid, comment, unapprove) ==
    [revid |-> revid, comment |-> comment, unapprove |-> unapprove]

\* a returned dict: keys is the set of keys it has
NoOutcome ==
    [exc |-> "", keys |-> {}, success |-> FALSE, message |-> "", rev_id |-> None,
     comment |-> EmptyStr, approval_result |-> "", error |-> "", summary |-> NoSummary]

NothingToApprove == "No revisions can be approved"

\* the except branch shared by process_and_approve_revisions and
\* batch_process_pages: {"success": False, "error": str(e), "summary": ...};
\* an exception of get_approval_summary leaves the handler
ExceptHandler(autoreview_results, e) ==
    LET summary == get_approval_summary(autoreview_results)
    IN  IF summary.exc # "" THEN [NoOutcome EXCEPT !.exc = summary.exc]
        ELSE [NoOutcome EXCEPT !.keys = {"success", "error", "summary"},
                               !.success = FALSE, !.error = e, !.summary = summary]

\* the summary a return statement of the try block evaluates: an exception
\* of it is caught by the except branch
ReturnWithSummary(autoreview_results, outcome) ==
    LET summary == get_approval_summary(autoreview_results)
    IN  IF summary.exc # "" THEN ExceptHandler(autoreview_results, summary.exc)
        ELSE [outcome EXCEPT !.summary = summary]

\* mutant: the failure is reported without the summary
NothingApprovableWithoutSummary(autoreview_results) ==
    [ret |-> [NoOutcome EXCEPT !.keys = {"success", "message"},
                               !.success = FALSE,
                               !.message = NothingToApprove],
     calls |-> <<>>]

\* the branch taken when highest_rev_id is None: no call of approve_revision
NothingApprovable(autoreview_results) ==
    [ret |-> ReturnWithSummary(autoreview_results,
                [NoOutcome EXCEPT !.keys = {"success", "message", "summary"},
                                  !.success = FALSE,
                                  !.message = NothingToApprove]),
     calls |-> <<>>]

\* mutant: whatever approve_revision returns counts as a success
AnyResultIsSuccess(approval_result) == TRUE

\* approval_result["result"] == "success"
ResultIsSuccess(approval_result) == approval_result = "success"

\* process_and_approve_revisions with the external action behaving as
\* approve_outcome: [ret: the dict returned (or exc), calls: the invocations
\* of approve_revision it made]
process_and_approve_revisions(autoreview_results, comment_prefix, approve_outcome) ==
    LET g == generate_approval_comment(autoreview_results)
    IN  IF g.exc # ""
        THEN [ret |-> ExceptHandler(autoreview_results, g.exc), calls |-> <<>>]
        ELSE IF g.revid = None
        THEN NothingApprovable(autoreview_results)
        ELSE LET full_comment == comment_prefix \o g.comment
                 validated_comment == validate_comment_length(full_comment, DefaultMaxLength)
                 call == ApproveCall(g.revid, validated_comment, FALSE)
             IN  IF approve_outcome = "raise"
                 THEN [ret |-> ExceptHandler(autoreview_results, ApproveRaisedMessage),
                       calls |-> <<call>>]
                 ELSE [ret |-> ReturnWithSummary(autoreview_results,
                                 [NoOutcome EXCEPT
                                    !.keys = {"success", "rev_id", "comment",
                                              "approval_result", "summary"},
                                    !.success = ResultIsSuccess(approve_outcome),
                                    !.rev_id = g.revid,
                                    !.comment = validated_comment,
                                    !.approval_result = approve_outcome]),
                       calls |-> <<call>>]

\* a dict returned by preview_approval_comment: keys is the set of keys
\* it has
NoPreview ==
    [exc |-> "", keys |-> {}, can_approve |-> FALSE, message |-> "", rev_id |-> None,
     comment |-> EmptyStr, comment_length |-> 0, error |-> "", summary |-> NoSummary]

\* the except branch of preview_approval_comment: {"can_approve": False,
\* "error": str(e), "summary": ...}; an exception of get_approval_summary
\* leaves the handler
PreviewExceptHandler(autoreview_results, e) ==
    LET summary == get_approval_summary(autoreview_results)
    IN  IF summary.exc # "" THEN [NoPreview EXCEPT !.exc = summary.exc]
        ELSE [NoPreview EXCEPT !.keys = {"can_approve", "error", "summary"},
                               !.can_approve = FALSE, !.error = e, !.summary = summary]

\* the summary a return statement of the try block evaluates: an exception
\* of it is caught by the except branch
PreviewWithSummary(autoreview_results, preview) ==
    LET summary == get_approval_summary(autoreview_results)
    IN  IF summary.exc # "" THEN PreviewExceptHandler(autoreview_results, summary.exc)
        ELSE [preview EXCEPT !.summary = summary]

\* mutant: the preview shows the comment as generated, not as validated
preview_of_full_comment(autoreview_results, comment_prefix) ==
    LET g == generate_approval_comment(autoreview_results)
    IN  IF g.exc # ""
        THEN [ret |-> PreviewExceptHandler(autoreview_results, g.exc), calls |-> <<>>]
        ELSE IF g.revid = None
        THEN [ret |-> PreviewWithSummary(autoreview_results,
                        [NoPreview EXCEPT !.keys = {"can_approve", "message", "summary"},
                                          !.can_approve = FALSE,
                                          !.message = NothingToApprove]),
              calls |-> <<>>]
        ELSE [ret |-> PreviewWithSummary(autoreview_results,
                        [NoPreview EXCEPT
                           !.keys = {"can_approve", "rev_id", "comment",
                                     "comment_length", "summary"},
                           !.can_approve = TRUE,
                           !.rev_id = g.revid,
                           !.comment = comment_prefix \o g.comment,
                           !.comment_length = Len(comment_prefix \o g.comment)]),
              calls |-> <<>>]

\* preview_approval_comment: [ret: the dict returned (or exc), calls: the
\* invocations of approve_revision it made; there is none in its code]
preview_approval_comment(autoreview_results, comment_prefix) ==
    LET g == generate_approval_comment(autoreview_results)
    IN  IF g.exc # ""
        THEN [ret |-> PreviewExceptHandler(autoreview_results, g.exc), calls |-> <<>>]
        ELSE IF g.revid = None
        THEN [ret |-> PreviewWithSummary(autoreview_results,
                        [NoPreview EXCEPT !.keys = {"can_approve", "message", "summary"},
                                          !.can_approve = FALSE,
                                          !.message = NothingToApprove]),
              calls |-> <<>>]
        ELSE LET full_comment == comment_prefix \o g.comment
                 validated_comment == validate_comment_length(full_comment, DefaultMaxLength)
             IN  [ret |-> PreviewWithSummary(autoreview_results,
                            [NoPreview EXCEPT
                               !.keys = {"can_approve", "rev_id", "comment",
                                         "comment_length", "summary"},
                               !.can_approve = TRUE,
                               !.rev_id = g.revid,
                               !.comment = validated_comment,
                               !.comment_length = Len(validated_comment)]),
                  calls |-> <<>>]

\* one iteration of the loop of batch_process_pages
BatchIteration(autoreview_results, comment_prefix, approve_outcome) ==
    LET p == process_and_approve_revisions(autoreview_results, comment_prefix,
                                           approve_outcome)
    IN  IF p.ret.exc = "" THEN p
        ELSE [ret |-> ExceptHandler(autoreview_results, p.ret.exc), calls |-> p.calls]

\* the pages of a batch: lists of at most one entry, on one revid
BatchEntries ==
    {e \in Entries : e.revid \in {None, 12345}
                     /\ e.reason \in {ReasonBot, ReasonBlocked, EmptyStr}}
BatchLists == {<<>>} \cup {<<e>> : e \in BatchEntries}
BatchInputs == UNION {[1..n -> BatchLists] : n \in 0..MaxPages}

\* the accumulators of get_approval_statistics before its loop
NoStatistics ==
    [exc |-> "", total_pages |-> 0, pages_with_approvals |-> 0, total_revisions |-> 0,
     total_approved |-> 0, total_blocked |-> 0,
     overall_approval_rate |-> Zero, pages_approval_rate |-> Zero]

\* mutant: a page with approvals counts once per approved revision
ApprovedPagesByCount(summary) == summary.approved_count

\* what a page adds to pages_with_approvals
ApprovedPages(summary) == IF summary.approved_count > 0 THEN 1 ELSE 0

\* the for loop of get_approval_statistics from page i on; an exception of
\* get_approval_summary leaves the function
RECURSIVE StatisticsLoop(_, _, _)
StatisticsLoop(by_page, i, acc) ==
    IF i > Len(by_page) THEN acc
    ELSE LET summary == get_approval_summary(by_page[i])
         IN  IF summary.exc # "" THEN [NoStatistics EXCEPT !.exc = summary.exc]
             ELSE StatisticsLoop(by_page, i + 1,
                    [acc EXCEPT
                       !.total_revisions = @ + summary.total_revisions,
                       !.total_approved = @ + summary.approved_count,
                       !.total_blocked = @ + summary.blocked_count,
                       !.pages_with_approvals = @ + ApprovedPages(summary)])

get_approval_statistics(autoreview_results_by_page) ==
    LET total_pages == Len(autoreview_results_by_page)
        acc == StatisticsLoop(autoreview_results_by_page, 1, NoStatistics)
    IN  IF acc.exc # "" THEN acc
        ELSE [acc EXCEPT
                !.total_pages = total_pages,
                !.overall_approval_rate =
                    IF acc.total_revisions > 0
                    THEN Fraction(acc.total_approved, acc.total_revisions) ELSE Zero,
                !.pages_approval_rate =
                    IF total_pages > 0
                    THEN Fraction(acc.pages_with_approvals, total_pages) ELSE Zero]

\* the pages handed to get_approval_statistics: lists on two revids
StatisticsEntries ==
    {Result(AllKeys, 12345, "approve", ReasonBot),
     Result(AllKeys, 12346, "approve", ReasonBot),
     Result(AllKeys, 12346, "blocked", ReasonBlocked),
     Result(AllKeys, 12345, "manual", ReasonBlocked),
     Result({"reason"}, None, "approve", ReasonBot)}
StatisticsLists == {l \in ResultLists(MaxPageLen) : Range(l) \subseteq StatisticsEntries}
StatisticsInputs == UNION {[1..n -> StatisticsLists] : n \in 0..MaxPages}

\* the comments handed to validate_comment_length on its own: the character
\* at position i is the last digit of i, so that a cut is visible
TextOfLength(n) == [i \in 1..n |-> DigitChars[(i % 10) + 1]]
CommentLengths == {0, 1, 2, 3, 4, 5, 13, 497, 500, 501, 600}
MaxLengths == {0, 1, 2, 3, 4, 10, DefaultMaxLength}

(***************************************************************************)
(* views.py: fetch_liftwing_predictions                                    *)
(***************************************************************************)
\* mutant: the pool has a worker for every revision of the request
one_worker_per_revision == MaxRevisions

\* ThreadPoolExecutor(max_workers=10)
max_workers == 10

\* how the external call requests.post(...) of one task ends: a response
\* that is read, a Timeout, an HTTPError of raise_for_status, or another
\* exception
CallOutcomes == <<"ok", "timeout", "http_error", "exception">>

TimedOut == "Request timed out"
HttpFailed == "HTTP 500: Server Error"
OtherFailure == "Connection refused"

\* a prediction: the "output" of the service for the revision, or
\* {"error": ...}
Output(rev_id) == [error |-> "", output |-> rev_id]
ErrorDict(message) == [error |-> message, output |-> None]

\* what a future holds: the returned pair (rev_id, prediction), or the
\* exception the task raised
Pair(rev_id, prediction) == [exc |-> "", rev_id |-> rev_id, prediction |-> prediction]
NoPair == [exc |-> "", rev_id |-> None, prediction |-> ErrorDict("")]

\* mutant: the handler of Timeout re-raises
fetch_single_prediction_raising(rev_id, outcome) ==
    CASE outcome = "ok" -> Pair(rev_id, Output(rev_id))
      [] outcome = "timeout" -> [NoPair EXCEPT !.exc = TimedOut]
      [] outcome = "http_error" -> Pair(rev_id, ErrorDict(HttpFailed))
      [] outcome = "exception" -> Pair(rev_id, ErrorDict(OtherFailure))

\* fetch_single_prediction(rev_id) when its external call ends as outcome
fetch_single_prediction(rev_id, outcome) ==
    CASE outcome = "ok" -> Pair(rev_id, Output(rev_id))
      [] outcome = "timeout" -> Pair(rev_id, ErrorDict(TimedOut))
      [] outcome = "http_error" -> Pair(rev_id, ErrorDict(HttpFailed))
      [] outcome = "exception" -> Pair(rev_id, ErrorDict(OtherFailure))

\* predictions[rev_id] = prediction
SetItem(d, key, value) ==
    [k \in (DOMAIN d) \cup {key} |-> IF k = key THEN value ELSE d[k]]
EmptyDict == [k \in {} |-> NoPair.prediction]

\* a JsonResponse
JsonResponse(status, error, predictions) ==
    [status |-> status, error |-> error, predictions |-> predictions]
NoResponse == JsonResponse(0, "", EmptyDict)
RevisionsRequired == "Revisions list is required"

\* the "revisions" of a request: n distinct revision ids, for a short
\* request, one that fills the pool and one that exceeds it, or a short
\* list that names a revision twice
RevisionLists ==
    {[i \in 1..n |-> 100 + i] : n \in (0..MaxMixed) \cup {max_workers, MaxRevisions}}
    \cup {<<101, 101>>, <<101, 102, 101>>}
\* how the external calls of a request end, task by task: every
\* combination for a short request, the outcomes in turn for a longer one
CallOutcomeChoices(n) ==
    IF n <= MaxMixed THEN [1..n -> Range(CallOutcomes)]
    ELSE {[i \in 1..n |-> CallOutcomes[((i - 1) % Len(CallOutcomes)) + 1]]}

(***************************************************************************)
(* views.py: fetch_diff and the cache it uses                              *)
(***************************************************************************)
\* None where the other values are strings
NoneValue == "None"
\* the "url" parameter of a request: missing (None), empty, or a URL
UrlParams == {NoneValue, "", "https://a.example/diff", "https://b.example/diff"}

\* how the external requests.get(url) ends: a response that
\* raise_for_status() lets pass, with its text (which may be empty); a
\* response with an error status, which it raises for; or no response
Reply(kind, text, error) == [kind |-> kind, text |-> text, error |-> error]
NoReply == Reply("", "", "")
Replies ==
    {Reply("ok", text, "") : text \in {"", "<table>1</table>", "<table>2</table>"}}
    \cup {Reply("http_error", "<h1>Not Found</h1>", "404 Client Error"),
          Reply("timeout", "", "Read timed out")}

\* the truth value of a Python value: None and "" are false
Truthy(value) == value # NoneValue /\ value # ""

\* the cache: a mapping from keys to values
EmptyCache == [k \in {} |-> ""]
\* cache.get(key): None when the key is not in the cache
CacheGet(store, key) == IF key \in DOMAIN store THEN store[key] ELSE NoneValue
\* cache.set(key, value, CACHE_TTL)
CacheSet(store, key, value) ==
    [k \in (DOMAIN store) \cup {key} |-> IF k = key THEN value ELSE store[k]]
\* the entry of key is dropped when its CACHE_TTL is over
CacheDrop(store, key) == [k \in (DOMAIN store) \ {key} |-> store[k]]

\* HttpResponse(html, content_type="text/html") and
\* JsonResponse({"error": ...}, status=...)
DiffResponse(status, content_type, body, error) ==
    [status |-> status, content_type |-> content_type, body |-> body, error |-> error]
HtmlResponse(html) == DiffResponse(200, "text/html", html, "")
ErrorResponse(status, error) == DiffResponse(status, "application/json", "", error)
NoDiffResponse == DiffResponse(0, "", "", "")

\* mutant: the text of whatever response came back is stored before its
\* status is looked at
TryBlockStoringFirst(store, key, reply) ==
    CASE reply.kind = "ok" ->
            [cache |-> CacheSet(store, key, reply.text), response |-> HtmlResponse(reply.text)]
      [] reply.kind = "http_error" ->
            [cache |-> CacheSet(store, key, reply.text),
             response |-> ErrorResponse(500, reply.error)]
      [] OTHER -> [cache |-> store, response |-> ErrorResponse(500, reply.error)]

\* the try block of fetch_diff once requests.get is over: the cache and
\* the response it leaves
TryBlock(store, key, reply) ==
    IF reply.kind = "ok"
    THEN [cache |-> CacheSet(store, key, reply.text), response |-> HtmlResponse(reply.text)]
    ELSE [cache |-> store, response |-> ErrorResponse(500, reply.error)]

(***************************************************************************)
(* reviews/autoreview.py: _evaluate_revision, the rule chain of one        *)
(* revision.  Each check gives the status of its CheckResult and, when it  *)
(* is conclusive, the Decision; a check that goes on gives NoDecision.     *)
(***************************************************************************)
Decision(status, reason) == [status |-> status, reason |-> reason]
NoDecision == Decision("", "")
CheckOutcome(status, decision) == [status |-> status, decision |-> decision]

BotFlags == {"is_bot", "is_former_bot", "is_global_bot", "is_former_global_bot"}

\* what is true of the revision and what its external lookups answer
Facts ==
    [manually_unapproved : BOOLEAN,
     blocked_after : {"no", "yes", "error"},
     auto_approved : BOOLEAN,
     blocking_category : BOOLEAN,
     invalid_isbns : BOOLEAN,
     domains : {"ok", "manual", "error"},
     render_error : {"no", "yes", "error"},
     no_content_change : BOOLEAN,
     ml_scores : {"none", "approve", "manual"}]
NoFacts ==
    [manually_unapproved |-> FALSE, blocked_after |-> "no", auto_approved |-> FALSE,
     blocking_category |-> FALSE, invalid_isbns |-> FALSE, domains |-> "ok",
     render_error |-> "no", no_content_change |-> FALSE, ml_scores |-> "none"]

\* 1. manual-unapproval
manual_unapproval_check(f, flags) ==
    IF f.manually_unapproved
    THEN CheckOutcome("fail", Decision("blocked", "Revision was manually un-approved"))
    ELSE CheckOutcome("ok", NoDecision)

\* mutant: only the local bot flag counts
bot_user_check_local_only(f, flags) ==
    IF "is_bot" \in flags
    THEN CheckOutcome("ok", Decision("approve", "user is recognized as a bot"))
    ELSE CheckOutcome("not_ok", NoDecision)

\* 2. bot-user
bot_user_check(f, flags) ==
    IF flags # {}
    THEN CheckOutcome("ok", Decision("approve", "user is recognized as a bot"))
    ELSE CheckOutcome("not_ok", NoDecision)

\* mutant: the block is recorded and the chain goes on
blocked_user_check_going_on(f, flags) ==
    CASE f.blocked_after = "yes" -> CheckOutcome("fail", NoDecision)
      [] f.blocked_after = "error" -> CheckOutcome("error", NoDecision)
      [] f.blocked_after = "no" -> CheckOutcome("ok", NoDecision)

\* 3. blocked-user: the block lookup is external; its error is recorded
\* and the chain goes on
blocked_user_check(f, flags) ==
    CASE f.blocked_after = "yes" ->
            CheckOutcome("fail", Decision("blocked", "User was blocked after making this edit."))
      [] f.blocked_after = "error" -> CheckOutcome("error", NoDecision)
      [] f.blocked_after = "no" -> CheckOutcome("ok", NoDecision)

\* 4. redirect / auto-approved-group
auto_approved_check(f, flags) ==
    IF f.auto_approved
    THEN CheckOutcome("ok", Decision("approve", "User was auto-reviewed"))
    ELSE CheckOutcome("not_ok", NoDecision)

\* 5. blocking-category
blocking_category_check(f, flags) ==
    IF f.blocking_category
    THEN CheckOutcome("fail", Decision("manual", "Page is in a blocking category"))
    ELSE CheckOutcome("ok", NoDecision)

\* 6. ISBN validity
isbn_check(f, flags) ==
    IF f.invalid_isbns
    THEN CheckOutcome("fail", Decision("manual", "Invalid ISBNs"))
    ELSE CheckOutcome("ok", NoDecision)

\* 7. domain verification: the verifier's own failure halts too
domain_check(f, flags) ==
    CASE f.domains = "manual" -> CheckOutcome("manual", Decision("manual", "Invalid domains"))
      [] f.domains = "error" ->
            CheckOutcome("error", Decision("manual", "Domain verification failed"))
      [] f.domains = "ok" -> CheckOutcome("ok", NoDecision)

\* 8. render-error check: external; its error is recorded and the chain
\* goes on
render_error_check(f, flags) ==
    CASE f.render_error = "yes" -> CheckOutcome("fail", Decision("manual", "New render errors"))
      [] f.render_error = "error" -> CheckOutcome("error", NoDecision)
      [] f.render_error = "no" -> CheckOutcome("ok", NoDecision)

\* 9. no-content-change
no_content_change_check(f, flags) ==
    IF f.no_content_change
    THEN CheckOutcome("ok", Decision("approve", "No content change in last article"))
    ELSE CheckOutcome("not_ok", NoDecision)

\* 10. ML score thresholds
ml_scores_check(f, flags) ==
    CASE f.ml_scores = "approve" ->
            CheckOutcome("ok", Decision("approve", "ORES score goodfaith=X, damaging=Y"))
      [] f.ml_scores = "manual" -> CheckOutcome("fail", Decision("manual", "ORES score risk"))
      [] f.ml_scores = "none" -> CheckOutcome("not_ok", NoDecision)

\* the checks in the order they run
Checks ==
    <<"manual-unapproval", "bot-user", "blocked-user", "auto-approved-group",
      "blocking-category", "isbn", "domain-verification", "render-error",
      "no-content-change", "ml-scores">>

RunCheck(id, f, flags) ==
    CASE id = "manual-unapproval" -> manual_unapproval_check(f, flags)
      [] id = "bot-user" -> bot_user_check(f, flags)
      [] id = "blocked-user" -> blocked_user_check(f, flags)
      [] id = "auto-approved-group" -> auto_approved_check(f, flags)
      [] id = "blocking-category" -> blocking_category_check(f, flags)
      [] id = "isbn" -> isbn_check(f, flags)
      [] id = "domain-verification" -> domain_check(f, flags)
      [] id = "render-error" -> render_error_check(f, flags)
      [] id = "no-content-change" -> no_content_change_check(f, flags)
      [] id = "ml-scores" -> ml_scores_check(f, flags)

\* mutant: what no rule decided is approved
ApproveByDefault == Decision("approve", "requires human review")

\* 11. no rule halted
DefaultDecision == Decision("manual", "requires human review")

(***************************************************************************)
(* reviews/autoreview.py: _validate_isbn_10, the ISBN-10 checksum          *)
(* validator.                                                              *)
(***************************************************************************)
\* str.isdigit() of one character
isdigit(c) == c \in {"0", "1", "2", "3", "4", "5", "6", "7", "8", "9"}
\* int(c) of a digit
int(c) ==
    CASE c = "0" -> 0 [] c = "1" -> 1 [] c = "2" -> 2 [] c = "3" -> 3 [] c = "4" -> 4
      [] c = "5" -> 5 [] c = "6" -> 6 [] c = "7" -> 7 [] c = "8" -> 8 [] c = "9" -> 9

\* the normalization: hyphens and spaces are stripped
RECURSIVE StripSeparators(_)
StripSeparators(s) ==
    IF s = <<>> THEN <<>>
    ELSE IF s[1] \in {"-", " "} THEN StripSeparators(Tail(s))
         ELSE <<s[1]>> \o StripSeparators(Tail(s))

\* mutant: only the capital X is a check character
CheckCharacterValueCapitalOnly(c) ==
    IF c = "X" THEN 10
    ELSE IF isdigit(c) THEN int(c)
    ELSE None

\* the value of the 10th character: a digit, or "X"/"x" for 10; None for
\* any other character
CheckCharacterValue(c) ==
    IF c \in {"X", "x"} THEN 10
    ELSE IF isdigit(c) THEN int(c)
    ELSE None

\* the checksum loop: total += value_i * (10 - i) for i = 0..9, from
\* position i on
RECURSIVE Isbn10Total(_, _)
Isbn10Total(s, i) ==
    IF i > 9 THEN 0
    ELSE (IF i = 9 THEN CheckCharacterValue(s[i + 1]) ELSE int(s[i + 1])) * (10 - i)
         + Isbn10Total(s, i + 1)

_validate_isbn_10(isbn) ==
    LET s == StripSeparators(isbn)
    IN  IF Len(s) # 10 THEN FALSE
        ELSE IF \E i \in 1..9 : ~isdigit(s[i]) THEN FALSE
        ELSE IF CheckCharacterValue(s[10]) = None THEN FALSE
        ELSE Isbn10Total(s, 0) % 11 = 0

\* the ISBNs of the tests
IsbnTests ==
    {<<"0","3","0","6","4","0","6","1","5","2">>,
     <<"0","4","3","9","4","2","0","8","9","X">>,
     <<"0","4","3","9","4","2","0","8","9","x">>,
     <<"0","3","0","6","4","0","6","1","5","3">>,
     <<"0","3","0","6","4","0","6","1","5">>,
     <<"0","3","0","6","4","0","6","1","5","2","1">>,
     <<"0","3","0","6","4","0","A","1","5","2">>,
     <<"0","-","3","0","6","-","4","0","6","1","5","-","2">>,
     <<"X","3","0","6","4","0","6","1","5","2">>,
     <<>>}
\* the strings handed to the validator: the ISBNs of the tests (n = 0), and
\* a group-and-publisher part followed by n more characters
IsbnInputs(n) ==
    IF n = 0 THEN IsbnTests
    ELSE {<<"0", "3", "0", "6", "4", "0", "6", "1">> \o tail :
             tail \in [1..n -> {"0", "1", "2", "3", "4", "5", "6", "7", "8", "9",
                                "X", "x", "A", "-", " "}]}

(***************************************************************************)
(* State: each behaviour is one call of the API.                           *)
(***************************************************************************)
VARIABLES
    op,        \* "idle", or the call made and how far it is
    args,      \* the results list of a single-list call
    prefix,    \* the comment_prefix of the call
    gen,       \* what generate_approval_comment gave back
    proc,      \* what the last process_and_approve_revisions gave back
    calls,     \* the invocations of approve_revision, in order, with the page
               \* and what the invocation did (an element of ApproveOutcomes)
    pages,     \* the mapping handed to batch_process_pages, in dict order
    idx,       \* the page the loop of batch_process_pages is at
    results,   \* the results dict of batch_process_pages: page -> outcome
    comment,   \* the comment handed to validate_comment_length
    max_length,\* the max_length handed to validate_comment_length
    validated, \* what validate_comment_length gave back
    summary,   \* what get_approval_summary gave back
    statistics,\* what get_approval_statistics gave back
    revisions, \* the revisions of the request to fetch_liftwing_predictions
    outcomes,  \* how the external call of each task is going to end
    task,      \* each submitted task: "queued", "running" (its external call
               \* is outstanding), "done", "collected" (by as_completed)
    future,    \* what the future of each task holds once it is done
    predictions, \* the predictions dict
    response,  \* the JsonResponse returned
    facts,     \* the revision handed to _evaluate_revision and its lookups
    profile,   \* the bot flags set in the EditorProfile handed to it
    pc,        \* the check _evaluate_revision is at
    tests,     \* the CheckResults appended so far
    decision,  \* the Decision, once there is one
    isbn,      \* the string handed to _validate_isbn_10
    isbn_valid,\* what _validate_isbn_10 gave back
    given,     \* the decision handed to _extract_approval_reason
    extracted, \* what _extract_approval_reason gave back
    preview,   \* what preview_approval_comment gave back
    lists,     \* the list objects of the call when it is over: the caller's
               \* list and the lists the call built
    cache,     \* the cache fetch_diff uses
    url,       \* the "url" parameter of the request to fetch_diff
    reply,     \* how the external request of fetch_diff ended
    diff_response, \* the response of fetch_diff
    sent,      \* the number of external requests sent so far
    served     \* the number of requests to fetch_diff so far

\* the variables of the calls of the helpers
helperVars == <<comment, max_length, validated, summary, statistics>>

\* the variables of fetch_liftwing_predictions
fetchVars == <<revisions, outcomes, task, future, predictions, response>>

\* the variables of _evaluate_revision
evalVars == <<facts, profile, pc, tests, decision>>

\* the variables of the approval API
approvalVars == <<args, prefix, gen, proc, calls, pages, idx, results>>

\* the variables of the other calls
\* the variables of fetch_diff
diffVars == <<cache, url, reply, diff_response, sent, served>>

extraVars == <<isbn, isbn_valid, given, extracted, lists, preview, diffVars>>

vars == <<op, approvalVars, helperVars, fetchVars, evalVars, extraVars>>

Init ==
    /\ op = "idle"
    /\ args = <<>>
    /\ prefix = DefaultPrefix
    /\ gen = Returned(None, EmptyStr)
    /\ proc = NoOutcome
    /\ calls = <<>>
    /\ pages = <<>>
    /\ idx = 0
    /\ results = <<>>
    /\ comment = EmptyStr
    /\ max_length = DefaultMaxLength
    /\ validated = EmptyStr
    /\ summary = NoSummary
    /\ statistics = NoStatistics
    /\ revisions = <<>>
    /\ outcomes = <<>>
    /\ task = <<>>
    /\ future = <<>>
    /\ predictions = EmptyDict
    /\ response = NoResponse
    /\ facts = NoFacts
    /\ profile = {}
    /\ pc = 0
    /\ tests = <<>>
    /\ decision = NoDecision
    /\ isbn = EmptyStr
    /\ isbn_valid = FALSE
    /\ given = DecisionDict({}, EmptyStr)
    /\ extracted = EmptyStr
    /\ lists = Lists(<<>>)
    /\ preview = NoPreview
    /\ cache = EmptyCache
    /\ url = NoneValue
    /\ reply = NoReply
    /\ diff_response = NoDiffResponse
    /\ sent = 0
    /\ served = 0

\* a caller runs generate_approval_comment(results)
Generate ==
    /\ op = "idle"
    /\ \E rs \in ResultLists(MaxLen) :
          /\ args' = rs
          /\ gen' = generate_approval_comment(rs)
          /\ lists' = generate_approval_comment_lists(rs)
    /\ op' = "generated"
    /\ UNCHANGED <<isbn, isbn_valid, given, extracted, preview, diffVars, prefix, proc,
                   calls, pages, idx, results, helperVars, fetchVars, evalVars>>

\* a caller runs process_and_approve_revisions(results, comment_prefix)
Process ==
    /\ op = "idle"
    /\ \E rs \in ResultLists(MaxLen), pre \in Prefixes, out \in ApproveOutcomes :
          LET p == process_and_approve_revisions(rs, pre, out)
          IN  /\ args' = rs
              /\ prefix' = pre
              /\ proc' = p.ret
              /\ calls' = [i \in 1..Len(p.calls) |->
                              [page |-> 0, call |-> p.calls[i], did |-> out]]
    /\ op' = IF proc'.exc = "" THEN "processed" ELSE "process_raised"
    /\ UNCHANGED <<extraVars, gen, pages, idx, results, helperVars, fetchVars, evalVars>>

\* a caller runs preview_approval_comment(results, comment_prefix)
Preview ==
    /\ op = "idle"
    /\ \E rs \in ResultLists(MaxLen), pre \in Prefixes :
          LET p == preview_approval_comment(rs, pre)
          IN  /\ args' = rs
              /\ prefix' = pre
              /\ preview' = p.ret
              /\ calls' = calls \o [i \in 1..Len(p.calls) |->
                                       [page |-> 0, call |-> p.calls[i], did |-> "success"]]
    /\ op' = IF preview'.exc = "" THEN "previewed" ELSE "preview_raised"
    /\ UNCHANGED <<gen, proc, pages, idx, results, helperVars, fetchVars, evalVars,
                   isbn, isbn_valid, given, extracted, lists, diffVars>>

\* a caller runs batch_process_pages(mapping, comment_prefix): results = {}
BatchStart ==
    /\ op = "idle"
    /\ \E m \in BatchInputs, pre \in Prefixes :
          /\ pages' = m
          /\ prefix' = pre
    /\ idx' = 1
    /\ results' = <<>>
    /\ op' = "batch"
    /\ UNCHANGED <<extraVars, args, gen, proc, calls, helperVars, fetchVars, evalVars>>

\* one iteration of the for loop: the page at idx is processed
BatchStep ==
    /\ op = "batch"
    /\ idx <= Len(pages)
    /\ \E out \in ApproveOutcomes :
          LET inner == process_and_approve_revisions(pages[idx], prefix, out)
              it == BatchIteration(pages[idx], prefix, out)
          IN  /\ proc' = inner.ret
              /\ calls' = calls \o [i \in 1..Len(it.calls) |->
                                       [page |-> idx, call |-> it.calls[i], did |-> out]]
              /\ IF it.ret.exc = ""
                 THEN /\ results' = Append(results, it.ret)
                      /\ idx' = idx + 1
                      /\ op' = "batch"
                 ELSE /\ results' = results
                      /\ idx' = idx
                      /\ op' = "batch_raised"
    /\ UNCHANGED <<extraVars, args, prefix, gen, pages, helperVars, fetchVars, evalVars>>

\* the loop is over: return results
BatchReturn ==
    /\ op = "batch"
    /\ idx > Len(pages)
    /\ op' = "batch_returned"
    /\ UNCHANGED <<extraVars, args, prefix, gen, proc, calls, pages, idx, results, helperVars, fetchVars, evalVars>>

\* a caller runs validate_comment_length(comment, max_length)
Validate ==
    /\ op = "idle"
    /\ \E n \in CommentLengths, m \in MaxLengths :
          /\ comment' = TextOfLength(n)
          /\ max_length' = m
          /\ validated' = validate_comment_length(TextOfLength(n), m)
    /\ op' = "validated"
    /\ UNCHANGED <<extraVars, args, prefix, gen, proc, calls, pages, idx, results, summary, statistics, fetchVars, evalVars>>

\* a caller runs get_approval_summary(results)
Summarize ==
    /\ op = "idle"
    /\ \E rs \in ResultLists(MaxLen) :
          /\ args' = rs
          /\ summary' = get_approval_summary(rs)
          /\ lists' = get_approval_summary_lists(rs)
    /\ op' = IF summary'.exc = "" THEN "summarized" ELSE "summarize_raised"
    /\ UNCHANGED <<isbn, isbn_valid, given, extracted, preview, diffVars,
                   prefix, gen, proc, calls, pages, idx, results,
                   comment, max_length, validated, statistics, fetchVars, evalVars>>

\* a caller runs get_approval_statistics(mapping)
Statistics ==
    /\ op = "idle"
    /\ \E m \in StatisticsInputs :
          /\ pages' = m
          /\ statistics' = get_approval_statistics(m)
    /\ op' = IF statistics'.exc = "" THEN "statistics" ELSE "statistics_raised"
    /\ UNCHANGED <<extraVars, args, prefix, gen, proc, calls, idx, results,
                   comment, max_length, validated, summary, fetchVars, evalVars>>

\* a caller runs _extract_approval_reason(decision)
ExtractReason ==
    /\ op = "idle"
    /\ \E d \in DecisionInputs :
          /\ given' = d
          /\ extracted' = _extract_approval_reason(d)
    /\ op' = "extracted"
    /\ UNCHANGED <<approvalVars, helperVars, fetchVars, evalVars, isbn, isbn_valid, lists, preview, diffVars>>

Next ==
    \/ Generate \/ Process \/ BatchStart \/ BatchStep \/ BatchReturn
    \/ Validate \/ Summarize \/ Statistics \/ ExtractReason \/ Preview

Spec == Init /\ [][Next]_vars

(***************************************************************************)
(* fetch_liftwing_predictions: the request thread and the pool's workers.  *)
(***************************************************************************)
Outstanding == {i \in 1..Len(task) : task[i] = "running"}

\* the request arrives: an empty list is answered 400; else every revision
\* is submitted to the executor (lines 607-608)
FetchStart ==
    /\ op = "idle"
    /\ \E revs \in RevisionLists :
          /\ revisions' = revs
          /\ \E outs \in CallOutcomeChoices(Len(revs)) : outcomes' = outs
          /\ IF revs = <<>>
             THEN /\ response' = JsonResponse(400, RevisionsRequired, EmptyDict)
                  /\ op' = "fetch_rejected"
                  /\ task' = <<>>
                  /\ future' = <<>>
             ELSE /\ response' = response
                  /\ op' = "fetching"
                  /\ task' = [i \in 1..Len(revs) |-> "queued"]
                  /\ future' = [i \in 1..Len(revs) |-> NoPair]
    /\ predictions' = EmptyDict
    /\ UNCHANGED <<extraVars, approvalVars, helperVars, evalVars>>

\* a free worker of the pool takes the oldest queued task and makes its
\* external call
WorkerStart(i) ==
    /\ op = "fetching"
    /\ task[i] = "queued"
    /\ \A j \in 1..(i - 1) : task[j] # "queued"
    /\ Cardinality(Outstanding) < max_workers
    /\ task' = [task EXCEPT ![i] = "running"]
    /\ UNCHANGED <<extraVars, op, approvalVars, helperVars, evalVars, revisions, outcomes, future,
                   predictions, response>>

\* the external call of a task ends and fetch_single_prediction returns
WorkerFinish(i) ==
    /\ op = "fetching"
    /\ task[i] = "running"
    /\ future' = [future EXCEPT ![i] = fetch_single_prediction(revisions[i], outcomes[i])]
    /\ task' = [task EXCEPT ![i] = "done"]
    /\ UNCHANGED <<extraVars, op, approvalVars, helperVars, evalVars, revisions, outcomes,
                   predictions, response>>

\* as_completed yields a finished future: future.result() is stored under
\* its rev_id, or its exception reaches the except branch of the view
Collect(i) ==
    /\ op = "fetching"
    /\ task[i] = "done"
    /\ task' = [task EXCEPT ![i] = "collected"]
    /\ IF future[i].exc # ""
       THEN /\ response' = JsonResponse(500, future[i].exc, EmptyDict)
            /\ op' = "fetch_failed"
            /\ predictions' = predictions
       ELSE /\ predictions' = SetItem(predictions, future[i].rev_id, future[i].prediction)
            /\ UNCHANGED <<op, response>>
    /\ UNCHANGED <<extraVars, approvalVars, helperVars, evalVars, revisions, outcomes, future>>

\* every future was yielded: the pool is shut down and the dict returned
FetchReturn ==
    /\ op = "fetching"
    /\ \A i \in 1..Len(task) : task[i] = "collected"
    /\ response' = JsonResponse(200, "", predictions)
    /\ op' = "fetched"
    /\ UNCHANGED <<extraVars, approvalVars, helperVars, evalVars, revisions, outcomes, task, future, predictions>>

FetchNext ==
    \/ FetchStart
    \/ \E i \in 1..Len(task) : WorkerStart(i)
    \/ \E i \in 1..Len(task) : WorkerFinish(i)
    \/ \E i \in 1..Len(task) : Collect(i)
    \/ FetchReturn

FetchSpec == Init /\ [][FetchNext]_vars

(***************************************************************************)
(* _evaluate_revision: one revision through the rule chain.                *)
(***************************************************************************)
\* a caller runs _evaluate_revision(revision, client, profile, ...)
EvaluateStart ==
    /\ op = "idle"
    /\ facts' \in Facts
    /\ profile' \in SUBSET BotFlags
    /\ pc' = 1
    /\ tests' = <<>>
    /\ decision' = NoDecision
    /\ op' = "evaluating"
    /\ UNCHANGED <<extraVars, approvalVars, helperVars, fetchVars>>

\* the check at pc runs: its CheckResult is appended; a conclusive check
\* returns the result with its Decision
EvaluateCheck ==
    /\ op = "evaluating"
    /\ pc <= Len(Checks)
    /\ LET outcome == RunCheck(Checks[pc], facts, profile)
       IN  /\ tests' = Append(tests, [id |-> Checks[pc], status |-> outcome.status])
           /\ IF outcome.decision # NoDecision
              THEN /\ decision' = outcome.decision
                   /\ op' = "evaluated"
                   /\ pc' = pc
              ELSE /\ decision' = decision
                   /\ op' = op
                   /\ pc' = pc + 1
    /\ UNCHANGED <<extraVars, approvalVars, helperVars, fetchVars, facts, profile>>

\* no check halted: the result is returned with the default Decision
EvaluateDefault ==
    /\ op = "evaluating"
    /\ pc > Len(Checks)
    /\ decision' = DefaultDecision
    /\ op' = "evaluated"
    /\ UNCHANGED <<extraVars, approvalVars, helperVars, fetchVars, facts, profile, pc, tests>>

\* a caller runs _validate_isbn_10(isbn)
ValidateIsbn10 ==
    /\ op = "idle"
    /\ \E n \in 0..IsbnTailLen : \E s \in IsbnInputs(n) :
          /\ isbn' = s
          /\ isbn_valid' = _validate_isbn_10(s)
    /\ op' = "isbn10_validated"
    /\ UNCHANGED <<approvalVars, helperVars, fetchVars, evalVars,
                   given, extracted, lists, preview, diffVars>>

EvalNext == EvaluateStart \/ EvaluateCheck \/ EvaluateDefault \/ ValidateIsbn10

EvalSpec == Init /\ [][EvalNext]_vars

\* a request to fetch_diff comes in: a missing url is answered with 400, a
\* url with cached HTML from the cache; for any other the external request
\* is sent
FetchDiffCall ==
    /\ op \in {"idle", "diff_returned"}
    /\ served < MaxDiffRequests
    /\ served' = served + 1
    /\ reply' = NoReply
    /\ \E u \in UrlParams :
          /\ url' = u
          /\ IF ~Truthy(u)
             THEN /\ diff_response' = ErrorResponse(400, "Missing 'url' parameter")
                  /\ op' = "diff_returned"
                  /\ sent' = sent
             ELSE IF Truthy(CacheGet(cache, u))
             THEN /\ diff_response' = HtmlResponse(CacheGet(cache, u))
                  /\ op' = "diff_returned"
                  /\ sent' = sent
             ELSE /\ diff_response' = NoDiffResponse
                  /\ op' = "diff_requesting"
                  /\ sent' = sent + 1
    /\ UNCHANGED <<cache, approvalVars, helperVars, fetchVars, evalVars,
                   isbn, isbn_valid, given, extracted, lists, preview>>

\* requests.get is over: the rest of the try block, or the except branch
FetchDiffReply ==
    /\ op = "diff_requesting"
    /\ \E r \in Replies :
          /\ reply' = r
          /\ cache' = TryBlock(cache, url, r).cache
          /\ diff_response' = TryBlock(cache, url, r).response
    /\ op' = "diff_returned"
    /\ UNCHANGED <<url, sent, served, approvalVars, helperVars, fetchVars, evalVars,
                   isbn, isbn_valid, given, extracted, lists, preview>>

\* the CACHE_TTL of an entry is over: the cache drops it
CacheExpire ==
    /\ \E key \in DOMAIN cache : cache' = CacheDrop(cache, key)
    /\ UNCHANGED <<op, url, reply, diff_response, sent, served, approvalVars, helperVars,
                   fetchVars, evalVars, isbn, isbn_valid, given, extracted, lists, preview>>

DiffNext == FetchDiffCall \/ FetchDiffReply \/ CacheExpire

DiffSpec == Init /\ [][DiffNext]_vars

(***************************************************************************)
(* Vocabulary of the properties, stated without the operators above.       *)
(***************************************************************************)
\* the approved entries of a results list
ApprovedOf(rs) == {rs[i] : i \in {j \in 1..Len(rs) : rs[j].status = "approve"}}
HasApproved(rs) == ApprovedOf(rs) # {}
\* every approved entry is a complete result: it has its revid and its reason
ApprovedComplete(rs) == \A e \in ApprovedOf(rs) : e.keys = AllKeys
\* m is the highest revid among the approved entries
IsHighestApproved(rs, m) ==
    /\ \E e \in ApprovedOf(rs) : e.revid = m
    /\ \A e \in ApprovedOf(rs) : e.revid <= m
ProcessCalled == op \in {"processed", "process_raised"}

(***************************************************************************)
(* Reading a comment as text.                                              *)
(***************************************************************************)
IsDigit(c) == c \in {"0", "1", "2", "3", "4", "5", "6", "7", "8", "9"}
\* tok is in text at position i
OccursAt(text, tok, i) ==
    /\ i + Len(tok) - 1 <= Len(text)
    /\ SubSeq(text, i, i + Len(tok) - 1) = tok
\* how often tok is in text
Count(text, tok) == Cardinality({i \in 1..Len(text) : OccursAt(text, tok, i)})
\* how often the number written as digits is in text as a whole number
\* (not as a part of a longer run of digits)
NumberCount(text, digits) ==
    Cardinality({i \in 1..Len(text) :
        /\ OccursAt(text, digits, i)
        /\ (i = 1 \/ ~IsDigit(text[i - 1]))
        /\ (i + Len(digits) > Len(text) \/ ~IsDigit(text[i + Len(digits)]))})
\* the decimal numerals of the revids of the model
Numeral(id) ==
    CASE id = 12345 -> <<"1", "2", "3", "4", "5">>
      [] id = 12346 -> <<"1", "2", "3", "4", "6">>
      [] id = 12347 -> <<"1", "2", "3", "4", "7">>
\* the approved entries in ascending order of revid (revids are distinct):
\* the k-th is the one with exactly k approved revids at or below its own
SortedApproved(rs) ==
    [k \in 1..Cardinality(ApprovedOf(rs)) |->
        CHOOSE e \in ApprovedOf(rs) :
            Cardinality({f \in ApprovedOf(rs) : f.revid <= e.revid}) = k]
\* the positions of a sequence of results where a run of equal reasons starts
RunStarts(s) == {i \in 1..Len(s) : i = 1 \/ s[i].reason # s[i - 1].reason}
\* the maximal runs of equal reasons, in order, each as (first, last)
Runs(s) ==
    [k \in 1..Cardinality(RunStarts(s)) |->
        LET first == CHOOSE i \in RunStarts(s) :
                        Cardinality({j \in RunStarts(s) : j <= i}) = k
            later == {j \in RunStarts(s) : j > first}
            last  == IF later = {} THEN Len(s)
                     ELSE (CHOOSE j \in later : \A j2 \in later : j <= j2) - 1
        IN  <<first, last>>]
GenerateReturned == op = "generated" /\ HasApproved(args) /\ ApprovedComplete(args)

\* the public format of the comment for the sorted approved results s
Clause(s, run) ==
    <<"r", "e", "v", "_", "i", "d", " ">>
    \o Join(<<",", " ">>, [i \in 1..(run[2] - run[1] + 1) |-> Numeral(s[run[1] + i - 1].revid)])
    \o <<" ", "a", "p", "p", "r", "o", "v", "e", "d", " ",
         "b", "e", "c", "a", "u", "s", "e", " ">>
    \o s[run[1]].reason
PublicFormat(s) ==
    Join(<<",", " ">>, [k \in 1..Len(Runs(s)) |-> Clause(s, Runs(s)[k])]) \o <<".">>
EndsWith(text, c) == Len(text) > 0 /\ text[Len(text)] = c
\* text ends with one "." and not with two
EndsWithOnePeriod(text) ==
    /\ EndsWith(text, ".")
    /\ ~(Len(text) > 1 /\ text[Len(text) - 1] = ".")

(***************************************************************************)
(* C1: process_and_approve_revisions, given results with at least one      *)
(* approved (complete) result, invokes approve_revision exactly once, with *)
(* revid the highest approved revid, comment the length-validated          *)
(* comment_prefix + generated comment (at most 500 characters: unchanged   *)
(* when it fits, else its first 497 characters and "..."), unapprove=False.*)
(***************************************************************************)
C1_ApproveInvokedOnce ==
    (ProcessCalled /\ HasApproved(args) /\ ApprovedComplete(args)) =>
        /\ Len(calls) = 1
        /\ LET c == calls[1].call
               full == prefix \o PublicFormat(SortedApproved(args))
           IN  /\ IsHighestApproved(args, c.revid)
               /\ c.unapprove = FALSE
               /\ Len(c.comment) <= 500
               /\ IF Len(full) <= 500 THEN c.comment = full
                  ELSE c.comment = SubSeq(full, 1, 497) \o <<".", ".", ".">>

\* a call with a truncated comment: 500 characters ending in "..."
C1_Witness ==
    /\ op = "processed"
    /\ Len(args) = 3
    /\ Len(calls) = 1
    /\ Len(calls[1].call.comment) = 500
    /\ SubSeq(calls[1].call.comment, 498, 500) = <<".", ".", ".">>
    /\ calls[1].call.revid = 12347

(***************************************************************************)
(* C2: generate_approval_comment returns (None, "") if and only if no      *)
(* result of the list has decision status 'approve' (the empty list        *)
(* included).                                                              *)
(***************************************************************************)
C2_NoneIffNoApproval ==
    op = "generated" =>
        ((gen.exc = "" /\ gen.revid = None /\ gen.comment = <<>>) <=> ~HasApproved(args))

\* a non-empty list of blocked and manual results gives (None, "")
C2_Witness ==
    /\ op = "generated"
    /\ Len(args) = 2
    /\ ~HasApproved(args)
    /\ gen = [exc |-> "", revid |-> None, comment |-> <<>>]

(***************************************************************************)
(* C3: when a result is approved, the revid generate_approval_comment      *)
(* returns is the maximum revid over the approved results, and the revid   *)
(* of every approved result is in the comment exactly once.                *)
(***************************************************************************)
C3_HighestAndEachOnce ==
    GenerateReturned =>
        /\ gen.exc = ""
        /\ IsHighestApproved(args, gen.revid)
        /\ \A e \in ApprovedOf(args) : NumberCount(gen.comment, Numeral(e.revid)) = 1

\* three approved results given out of order, a non-approved one absent
C3_Witness ==
    /\ op = "generated"
    /\ Len(args) = 3
    /\ \A i \in 1..3 : args[i].status = "approve" /\ args[i].keys = AllKeys
    /\ args[1].revid = 12347 /\ args[2].revid = 12345
    /\ gen.revid = 12347
    /\ NumberCount(gen.comment, Numeral(12346)) = 1

(***************************************************************************)
(* C5: the clauses of the comment are the maximal runs of adjacent results *)
(* (approved, sorted ascending by revid) with identical reason: a change   *)
(* of reason starts a new clause, runs of one reason separated by another  *)
(* reason stay separate, and the groups in order give back the sorted      *)
(* sequence.                                                               *)
(***************************************************************************)
C5_GroupsAreMaximalRuns ==
    GenerateReturned =>
        LET s == SortedApproved(args)
            groups == _group_revisions_by_reason(s)
        IN  /\ Len(groups) = Cardinality(RunStarts(s))
            /\ \A k \in 1..Len(groups) :
                  /\ groups[k].revisions = SubSeq(s, Runs(s)[k][1], Runs(s)[k][2])
                  /\ groups[k].reason = s[Runs(s)[k][1]].reason
            /\ \A k \in 1..(Len(groups) - 1) : groups[k].reason # groups[k + 1].reason
            /\ Count(gen.comment, ApprovedBecause) = Cardinality(RunStarts(s))

\* reasons A, B, A in revid order: three clauses, the two A runs not merged
C5_Witness ==
    /\ GenerateReturned
    /\ Len(SortedApproved(args)) = 3
    /\ SortedApproved(args)[1].reason = SortedApproved(args)[3].reason
    /\ SortedApproved(args)[1].reason # SortedApproved(args)[2].reason
    /\ Count(gen.comment, ApprovedBecause) = 3

(***************************************************************************)
(* C6: the format of a non-empty comment.  Each group is "rev_id ", its    *)
(* revids joined by ", ", " approved because " and its reason; the groups  *)
(* are joined by ", "; one "." is appended.                                *)
(***************************************************************************)
\* C6 as claimed: the public format, ending with exactly one "." for every
\* reason string
C6_SinglePeriodEveryReason ==
    GenerateReturned =>
        /\ gen.comment = PublicFormat(SortedApproved(args))
        /\ EndsWithOnePeriod(gen.comment)

\* C6 as amended: the public format with one "." appended after the last
\* reason, so that the comment ends with exactly one "." exactly when the
\* last group's reason does not itself end with "."
C6_FormatOnePeriodAppended ==
    GenerateReturned =>
        LET s == SortedApproved(args)
        IN  /\ gen.comment = PublicFormat(s)
            /\ EndsWith(gen.comment, ".")
            /\ SubSeq(gen.comment, 1, Len(gen.comment) - 1)
                   = Join(<<",", " ">>, [k \in 1..Len(Runs(s)) |-> Clause(s, Runs(s)[k])])
            /\ EndsWithOnePeriod(gen.comment) <=> ~EndsWith(s[Len(s)].reason, ".")

\* a run of two revids and a singleton whose reason ends with "."
C6_Witness ==
    /\ GenerateReturned
    /\ Len(SortedApproved(args)) = 3
    /\ Cardinality(RunStarts(SortedApproved(args))) = 2
    /\ SortedApproved(args)[1].reason = SortedApproved(args)[2].reason
    /\ EndsWith(SortedApproved(args)[3].reason, ".")
    /\ gen.comment = PublicFormat(SortedApproved(args))

(***************************************************************************)
(* C4: the reason of a clause is the normalized reason: "User was a bot"   *)
(* is rendered "approved because user was a bot", and the single approved  *)
(* revision 12345 with that reason gives exactly                           *)
(* "rev_id 12345 approved because user was a bot.".                        *)
(***************************************************************************)
SingleBotApproval == <<Result(AllKeys, 12345, "approve", ReasonBot)>>
C4_ReasonIsNormalized ==
    /\ (op = "generated" /\ args = SingleBotApproval) =>
           gen.comment = <<"r", "e", "v", "_", "i", "d", " ", "1", "2", "3", "4", "5">>
                         \o ApprovedBecause \o ReasonBotLower \o <<".">>
    /\ GenerateReturned =>
           Count(gen.comment, ApprovedBecause \o ReasonBot) = 0

(***************************************************************************)
(* C7: process_and_approve_revisions never raises to its caller: whatever  *)
(* fails inside (the approval action, a malformed result entry) comes back *)
(* as a dict with success=False that carries the summary.                  *)
(***************************************************************************)
C7_ProcessNeverRaises ==
    ProcessCalled =>
        /\ proc.exc = ""
        /\ "summary" \in proc.keys
        /\ ("error" \in proc.keys => proc.success = FALSE)

(***************************************************************************)
(* C8: batch_process_pages isolates failures per page: it returns a        *)
(* mapping with an outcome for every input page, and a page whose          *)
(* processing raises does not stop the pages after it.                     *)
(***************************************************************************)
C8_BatchIsolatesPages ==
    /\ op # "batch_raised"
    /\ op = "batch_returned" => Len(results) = Len(pages)

(***************************************************************************)
(* C9: in one batch_process_pages call the approval action is invoked at   *)
(* most once per page: once the call is over, exactly once for a page with *)
(* an approved (complete) result and not at all for a page with none.      *)
(***************************************************************************)
CallsFor(p) == Cardinality({i \in 1..Len(calls) : calls[i].page = p})
BatchOver == op \in {"batch_returned", "batch_raised"}
C9_OncePerApprovablePage ==
    /\ op \in {"batch", "batch_returned", "batch_raised"} =>
           \A p \in 1..Len(pages) : CallsFor(p) <= 1
    /\ BatchOver =>
           \A p \in 1..Len(pages) :
               /\ (HasApproved(pages[p]) /\ ApprovedComplete(pages[p])) => CallsFor(p) = 1
               /\ ~HasApproved(pages[p]) => CallsFor(p) = 0

(***************************************************************************)
(* C10: with no approved result process_and_approve_revisions returns      *)
(* success=False, the message "No revisions can be approved" and the       *)
(* summary, and does not invoke the approval action.                       *)
(***************************************************************************)
C10_NothingToApprove ==
    (ProcessCalled /\ ~HasApproved(args)) =>
        /\ proc.exc = ""
        /\ proc.keys = {"success", "message", "summary"}
        /\ proc.success = FALSE
        /\ proc.message = "No revisions can be approved"
        /\ proc.summary.total_revisions = Len(args)
        /\ proc.summary.approved_count = 0
        /\ proc.summary.highest_approved_revid = None
        /\ calls = <<>>

\* a blocked and a manual result: nothing to approve
C10_Witness ==
    /\ op = "processed"
    /\ Len(args) = 2
    /\ args[1].status = "blocked" /\ args[2].status = "manual"
    /\ proc.message = "No revisions can be approved"
    /\ proc.summary.blocked_count = 1
    /\ calls = <<>>

(***************************************************************************)
(* C11: the outcome of process_and_approve_revisions has success=True if   *)
(* and only if approve_revision was invoked and returned result "success"; *)
(* every outcome (success, rejected approval, nothing approvable, caught   *)
(* exception) includes the summary of the results given.                   *)
(***************************************************************************)
ApproveReturnedSuccess == Len(calls) = 1 /\ calls[1].did = "success"
\* C11: success is True exactly when approve_revision was invoked and
\* returned "success", and every outcome carries the summary
C11_SuccessIffActionSucceeded ==
    /\ (ProcessCalled /\ ApprovedComplete(args)) => op = "processed"
    /\ op = "processed" =>
           /\ {"success", "summary"} \subseteq proc.keys
           /\ proc.success <=> ApproveReturnedSuccess
           /\ proc.summary.exc = ""
           /\ proc.summary.total_revisions = Len(args)
           /\ proc.summary.approved_count = Cardinality(ApprovedOf(args))

\* the action was invoked and returned "error": success=False, with summary
C11_Witness ==
    /\ op = "processed"
    /\ Len(calls) = 1 /\ calls[1].did = "error"
    /\ proc.success = FALSE
    /\ "summary" \in proc.keys
    /\ proc.summary.approved_count = 2

(***************************************************************************)
(* C12: when approve_revision returns result "error" (without raising),    *)
(* the outcome of process_and_approve_revisions has success=False and an   *)
(* "error" field.                                                          *)
(***************************************************************************)
C12_RejectedApprovalHasError ==
    (op = "processed" /\ Len(calls) = 1 /\ calls[1].did = "error") =>
        /\ proc.success = FALSE
        /\ "error" \in proc.keys

(***************************************************************************)
(* C13: validate_comment_length returns the comment unchanged when its     *)
(* length is at most max_length; otherwise it returns the first            *)
(* max_length-3 characters followed by "...", a string of exactly          *)
(* max_length characters (600 characters with max 500 give 500 characters  *)
(* ending in "...").                                                       *)
(***************************************************************************)
FirstChars(text, k) == [i \in 1..(IF k > 0 THEN k ELSE 0) |-> text[i]]
\* C13: unchanged within max_length, else the first max_length-3 characters
\* and "...", max_length characters in all
C13_TruncatedToMaxLength ==
    op = "validated" =>
        IF Len(comment) <= max_length THEN validated = comment
        ELSE /\ validated = FirstChars(comment, max_length - 3) \o <<".", ".", ".">>
             /\ Len(validated) = max_length

(***************************************************************************)
(* C15: get_approval_summary returns total_revisions = number of results,  *)
(* approved_count = number with status 'approve', blocked_count = number   *)
(* with status 'blocked', approval_rate = approved_count/total_revisions   *)
(* (0 when total is 0), highest_approved_revid = the maximum approved      *)
(* revid or None when nothing is approved; hence approved_count +          *)
(* blocked_count <= total_revisions.                                       *)
(***************************************************************************)
WithStatus(rs, status) == {i \in 1..Len(rs) : rs[i].status = status}
\* the rate (a fraction) is a / b
IsQuotient(rate, a, b) == rate.den > 0 /\ rate.num * b = a * rate.den
IsZero(rate) == rate.num = 0 /\ rate.den > 0
\* every approved entry has its revid
ApprovedHaveRevid(rs) == \A e \in ApprovedOf(rs) : "revid" \in e.keys
\* C15: the fields of the summary are the counts, the rate and the highest
\* approved revid of the list given
C15_SummaryCounts ==
    (op \in {"summarized", "summarize_raised"} /\ ApprovedHaveRevid(args)) =>
        /\ summary.exc = ""
        /\ summary.total_revisions = Len(args)
        /\ summary.approved_count = Cardinality(WithStatus(args, "approve"))
        /\ summary.blocked_count = Cardinality(WithStatus(args, "blocked"))
        /\ IF Len(args) = 0 THEN IsZero(summary.approval_rate)
           ELSE IsQuotient(summary.approval_rate,
                           Cardinality(WithStatus(args, "approve")), Len(args))
        /\ IF HasApproved(args)
           THEN IsHighestApproved(args, summary.highest_approved_revid)
           ELSE summary.highest_approved_revid = None
        /\ summary.approved_count + summary.blocked_count <= summary.total_revisions

\* an approved, a blocked and a manual result: rate 1/3, 1 + 1 < 3
C15_Witness ==
    /\ op = "summarized"
    /\ Len(args) = 3
    /\ args[1].status = "manual" /\ args[2].status = "approve" /\ args[3].status = "blocked"
    /\ summary.approved_count = 1 /\ summary.blocked_count = 1
    /\ summary.approval_rate = [num |-> 1, den |-> 3]
    /\ summary.highest_approved_revid = args[2].revid

(***************************************************************************)
(* C16: get_approval_statistics returns the sums of the per-page           *)
(* summaries: total_pages = number of pages, pages_with_approvals = number *)
(* of pages with at least one approved result, total_revisions,            *)
(* total_approved and total_blocked = sums over the pages; both rates are  *)
(* 0 when their denominator is 0; pages_with_approvals <= total_pages and  *)
(* total_approved + total_blocked <= total_revisions.                      *)
(***************************************************************************)
\* the sum of f[p] over the pages 1..n
RECURSIVE SumTo(_, _)
SumTo(f, n) == IF n = 0 THEN 0 ELSE SumTo(f, n - 1) + f[n]
CountOver(ps, status) ==
    SumTo([p \in 1..Len(ps) |-> Cardinality(WithStatus(ps[p], status))], Len(ps))
StatisticsCalled == op \in {"statistics", "statistics_raised"}
\* C16: the fields of the statistics are the sums over the pages, with
\* rates 0 on a zero denominator
C16_StatisticsAreSums ==
    (StatisticsCalled /\ \A p \in 1..Len(pages) : ApprovedHaveRevid(pages[p])) =>
        /\ statistics.exc = ""
        /\ statistics.total_pages = Len(pages)
        /\ statistics.pages_with_approvals
               = Cardinality({p \in 1..Len(pages) : HasApproved(pages[p])})
        /\ statistics.total_revisions
               = SumTo([p \in 1..Len(pages) |-> Len(pages[p])], Len(pages))
        /\ statistics.total_approved = CountOver(pages, "approve")
        /\ statistics.total_blocked = CountOver(pages, "blocked")
        /\ IF statistics.total_revisions = 0 THEN IsZero(statistics.overall_approval_rate)
           ELSE IsQuotient(statistics.overall_approval_rate,
                           statistics.total_approved, statistics.total_revisions)
        /\ IF Len(pages) = 0 THEN IsZero(statistics.pages_approval_rate)
           ELSE IsQuotient(statistics.pages_approval_rate,
                           statistics.pages_with_approvals, Len(pages))
        /\ statistics.pages_with_approvals <= statistics.total_pages
        /\ statistics.total_approved + statistics.total_blocked
               <= statistics.total_revisions

\* a page with two approved results and a page with a blocked one
C16_Witness ==
    /\ op = "statistics"
    /\ Len(pages) = 2
    /\ Cardinality(WithStatus(pages[1], "approve")) = 2
    /\ Len(pages[2]) = 1 /\ pages[2][1].status = "blocked"
    /\ statistics.pages_with_approvals = 1
    /\ statistics.total_revisions = 3
    /\ statistics.total_approved = 2
    /\ statistics.total_blocked = 1
    /\ statistics.pages_approval_rate = [num |-> 1, den |-> 2]

(***************************************************************************)
(* C17: in fetch_liftwing_predictions a failure of one revision's external *)
(* call (timeout, HTTP error, any other exception) is captured as that     *)
(* revision's own result and never aborts the pool; the predictions        *)
(* returned have an entry for every requested revision id, each holding    *)
(* the result of that revision's own call, in whatever order the tasks     *)
(* complete.                                                               *)
(***************************************************************************)
\* the tasks of the request that were submitted for rev
TasksOf(rev) == {i \in 1..Len(revisions) : revisions[i] = rev}
\* p is what the call of task i amounts to: the service's output for the
\* revision of the task, or an error that tells how the call failed
IsResultOfCall(p, i) ==
    CASE outcomes[i] = "ok" -> p.error = "" /\ p.output = revisions[i]
      [] outcomes[i] = "timeout" -> p.error = "Request timed out"
      [] outcomes[i] = "http_error" -> p.error = "HTTP 500: Server Error"
      [] outcomes[i] = "exception" -> p.error = "Connection refused"
\* C17: no failing call aborts the request, and every requested id gets
\* the result of a call made for it
C17_FailuresStayWithTheirRevision ==
    /\ op # "fetch_failed"
    /\ op = "fetching" =>
           \A i \in 1..Len(task) :
               task[i] = "collected" =>
                   /\ revisions[i] \in DOMAIN predictions
                   /\ \E j \in TasksOf(revisions[i]) :
                          IsResultOfCall(predictions[revisions[i]], j)
    /\ op = "fetched" =>
           /\ response.status = 200
           /\ \A i \in 1..Len(task) : task[i] = "collected"
           /\ DOMAIN response.predictions = Range(revisions)
           /\ \A rev \in Range(revisions) :
                  \E i \in TasksOf(rev) : IsResultOfCall(response.predictions[rev], i)

\* the second revision's call timed out and the eleventh's failed; both
\* are collected under their own ids while the first call is still
\* outstanding
C17_Witness ==
    /\ op = "fetching"
    /\ Len(revisions) = MaxRevisions
    /\ task[1] = "running"
    /\ outcomes[2] = "timeout" /\ task[2] = "collected"
    /\ task[Len(task)] = "collected"
    /\ predictions[102].error = "Request timed out"
    /\ predictions[revisions[Len(task)]].error # ""
    /\ 101 \notin DOMAIN predictions

(***************************************************************************)
(* C18: in fetch_liftwing_predictions at no point are more than 10         *)
(* external prediction calls outstanding at the same time, for any number  *)
(* of requested revisions.                                                 *)
(***************************************************************************)
C18_AtMostTenOutstanding == Cardinality(Outstanding) <= 10

\* ten calls outstanding while an eleventh revision waits for a worker
C18_Witness ==
    /\ op = "fetching"
    /\ Len(revisions) > 10
    /\ Cardinality(Outstanding) = 10
    /\ \E i \in 1..Len(task) : task[i] = "queued"

(***************************************************************************)
(* Reading an evaluation: the rule order and what each rule's entry says.  *)
(***************************************************************************)
RuleOrder ==
    <<"manual-unapproval", "bot-user", "blocked-user", "auto-approved-group",
      "blocking-category", "isbn", "domain-verification", "render-error",
      "no-content-change", "ml-scores">>
PositiveRules == {"bot-user", "auto-approved-group", "no-content-change", "ml-scores"}
\* the entry of a rule that halted: a positive rule that fired (ok), or
\* another rule that did not pass; the domain verifier's error halts too
IsConclusive(entry) ==
    IF entry.id \in PositiveRules THEN entry.status \in {"ok", "fail", "manual"}
    ELSE \/ entry.status \in {"fail", "manual"}
         \/ entry.id = "domain-verification" /\ entry.status = "error"
\* the decision a halting entry stands for
Determines(entry, d) ==
    CASE entry.id \in {"manual-unapproval", "blocked-user"} -> d.status = "blocked"
      [] entry.id \in PositiveRules /\ entry.status = "ok" -> d.status = "approve"
      [] OTHER -> d.status = "manual"
Decided == decision.status # ""
\* the tests are the first Len(tests) rules, in order
IsPrefixOfRuleOrder(ts) ==
    /\ Len(ts) <= Len(RuleOrder)
    /\ \A k \in 1..Len(ts) : ts[k].id = RuleOrder[k]
BlockedExample ==
    /\ ~facts.manually_unapproved
    /\ profile = {}
    /\ facts.blocked_after = "yes"

(***************************************************************************)
(* C19: revision evaluation short-circuits: the checks run in the fixed    *)
(* rule order and once a check halts with a conclusive decision no further *)
(* check runs, so the recorded tests are always a prefix of the rule order *)
(* and, when a rule halted, the last entry is the check that determined    *)
(* the decision (a user blocked after the edit gives exactly               *)
(* manual-unapproval(ok), bot-user(not_ok), blocked-user(fail) and the     *)
(* decision 'blocked').                                                    *)
(***************************************************************************)
C19_ShortCircuit ==
    /\ IsPrefixOfRuleOrder(tests)
    /\ \A k \in 1..(Len(tests) - 1) : ~IsConclusive(tests[k])
    /\ Decided <=> op = "evaluated"
    /\ (op = "evaluating" /\ tests # <<>>) => ~IsConclusive(tests[Len(tests)])
    /\ op = "evaluated" =>
           IF IsConclusive(tests[Len(tests)])
           THEN Determines(tests[Len(tests)], decision)
           ELSE Len(tests) = Len(RuleOrder) /\ decision.status = "manual"
    /\ (op = "evaluated" /\ BlockedExample) =>
           /\ tests = <<[id |-> "manual-unapproval", status |-> "ok"],
                        [id |-> "bot-user", status |-> "not_ok"],
                        [id |-> "blocked-user", status |-> "fail"]>>
           /\ decision = [status |-> "blocked",
                          reason |-> "User was blocked after making this edit."]

\* the blocked user of the example, whose edit would otherwise have been
\* approved for its unchanged content: three entries and 'blocked'
C19_Witness ==
    /\ op = "evaluated"
    /\ BlockedExample
    /\ facts.no_content_change
    /\ Len(tests) = 3
    /\ tests[3] = [id |-> "blocked-user", status |-> "fail"]
    /\ decision.status = "blocked"

(***************************************************************************)
(* C20: default-safe evaluation.  A decision is 'approve' only if a        *)
(* positive rule (bot-user, auto-approved group/redirect,                  *)
(* no-content-change, ML thresholds) conclusively fired; when no rule      *)
(* fires, or an external dependency of a check errors, the decision is     *)
(* never 'approve' on that account: a user with no bot flags and no other  *)
(* positive rule ends, when no rule fires, with decision 'manual' and      *)
(* bot-user recorded as not_ok.                                            *)
(***************************************************************************)
\* the facts that make a positive rule fire
NoPositiveFact ==
    /\ profile = {}
    /\ ~facts.auto_approved
    /\ ~facts.no_content_change
    /\ facts.ml_scores # "approve"
\* the facts that make another rule halt
NoHaltingFact ==
    /\ ~facts.manually_unapproved
    /\ facts.blocked_after # "yes"
    /\ ~facts.blocking_category
    /\ ~facts.invalid_isbns
    /\ facts.domains = "ok"
    /\ facts.render_error # "yes"
    /\ facts.ml_scores # "manual"
FactOf(id) ==
    CASE id = "bot-user" -> profile # {}
      [] id = "auto-approved-group" -> facts.auto_approved
      [] id = "no-content-change" -> facts.no_content_change
      [] id = "ml-scores" -> facts.ml_scores = "approve"
      [] OTHER -> FALSE
BotUserNotOk == \E k \in 1..Len(tests) : tests[k] = [id |-> "bot-user", status |-> "not_ok"]
ApprovedByPositiveRule ==
    decision.status = "approve" =>
        /\ tests # <<>>
        /\ tests[Len(tests)].status = "ok"
        /\ FactOf(tests[Len(tests)].id)

AnyBotFlag ==
    \E flag \in {"is_bot", "is_former_bot", "is_global_bot", "is_former_global_bot"} :
        flag \in profile
\* C21: a flagged editor whose revision was not manually un-approved is
\* approved by the second check, which is the last one recorded
C21_BotRule ==
    (op = "evaluated" /\ ~facts.manually_unapproved /\ AnyBotFlag) =>
        /\ decision.status = "approve"
        /\ decision.reason = "user is recognized as a bot"
        /\ tests = <<[id |-> "manual-unapproval", status |-> "ok"],
                     [id |-> "bot-user", status |-> "ok"]>>

\* the global bot of the test, blocked after the edit and with an invalid
\* ISBN in it: approved with two entries, neither later check recorded
C21_Witness ==
    /\ op = "evaluated"
    /\ profile = {"is_global_bot"}
    /\ ~facts.manually_unapproved
    /\ facts.blocked_after = "yes" /\ facts.invalid_isbns
    /\ Len(tests) = 2
    /\ tests[2] = [id |-> "bot-user", status |-> "ok"]
    /\ decision.status = "approve"

(***************************************************************************)
(* C24: for every comment and every max_length >= 0, max_length < 3        *)
(* included, the string returned by validate_comment_length has length at  *)
(* most max_length.                                                        *)
(***************************************************************************)
C24_WithinMaxLength ==
    (op = "validated" /\ max_length >= 0) => Len(validated) <= max_length

(***************************************************************************)
(* C22: validate_isbn10 accepts a string exactly when, after removing      *)
(* hyphens and spaces, it has exactly 10 characters, the first 9 are       *)
(* digits, the 10th is a digit or 'X'/'x' (value 10), and the sum of       *)
(* value_i * (10 - i) for i = 0..9 is divisible by 11; any other length or *)
(* character is rejected.                                                  *)
(***************************************************************************)
\* the positions of text that hold neither a hyphen nor a space
Significant(text) == {i \in 1..Len(text) : text[i] # "-" /\ text[i] # " "}
\* the characters at those positions, in order
Normalized(text) ==
    [k \in 1..Cardinality(Significant(text)) |->
        text[CHOOSE i \in Significant(text) :
                Cardinality({j \in Significant(text) : j <= i}) = k]]
\* the value a character stands for in an ISBN-10
Isbn10Value(c) ==
    IF c \in {"X", "x"} THEN 10
    ELSE CHOOSE v \in 0..9 : <<"0", "1", "2", "3", "4", "5", "6", "7", "8", "9">>[v + 1] = c
\* the weighted sum of a normalized ISBN-10, the sum over the set of its
\* positions i = 0..9
RECURSIVE WeightedSum(_, _)
WeightedSum(t, positions) ==
    IF positions = {} THEN 0
    ELSE LET i == CHOOSE p \in positions : TRUE
         IN  Isbn10Value(t[i + 1]) * (10 - i) + WeightedSum(t, positions \ {i})
IsIsbn10(text) ==
    LET t == Normalized(text)
    IN  /\ Len(t) = 10
        /\ \A i \in 1..9 : IsDigit(t[i])
        /\ IsDigit(t[10]) \/ t[10] \in {"X", "x"}
        /\ WeightedSum(t, 0..9) % 11 = 0
\* C22: the validator accepts exactly the strings that are an ISBN-10 with
\* a right checksum once their hyphens and spaces are removed
C22_Isbn10Accepted ==
    op = "isbn10_validated" => (isbn_valid <=> IsIsbn10(isbn))

\* 0-306-4061-1x, an ISBN-10 written with a hyphen and the check character
\* x: accepted
C22_Witness ==
    /\ op = "isbn10_validated"
    /\ isbn = <<"0","3","0","6","4","0","6","1","-","1","x">>
    /\ isbn_valid

(***************************************************************************)
(* C23: _extract_approval_reason normalizes a reason only when it matches  *)
(* a known pattern (bot, no-content-change, auto-reviewed, ORES, revert)   *)
(* by case-insensitive prefix matching, returning the canonical text of    *)
(* that pattern; every reason that matches no known pattern is returned    *)
(* unchanged.                                                              *)
(***************************************************************************)
\* two characters that are the same but for their case
SameIgnoringCase(a, b) ==
    \/ a = b
    \/ \E k \in 1..Len(UpperCase) : {a, b} = {UpperCase[k], LowerCase[k]}
\* tok is in text at position i, but for the case of the letters
OccursIgnoringCaseAt(text, tok, i) ==
    /\ i >= 1
    /\ i + Len(tok) - 1 <= Len(text)
    /\ \A k \in 1..Len(tok) : SameIgnoringCase(text[i + k - 1], tok[k])
BeginsWithIgnoringCase(text, tok) == OccursIgnoringCaseAt(text, tok, 1)
HasIgnoringCase(text, tok) == \E i \in 1..Len(text) : OccursIgnoringCaseAt(text, tok, i)
\* the known patterns in the order they are tried: the words of each and
\* its canonical text (the ORES pattern has a text of its own for each
\* score it finds, all of them beginning "ORES score ")
KnownPatterns ==
    <<[name |-> "bot", words |-> {<<"u","s","e","r"," ","w","a","s"," ","a"," ","b","o","t">>}, text |-> <<"u","s","e","r"," ","w","a","s"," ","a"," ","b","o","t">>],
      [name |-> "no-content-change", words |-> {<<"n","o"," ","c","o","n","t","e","n","t"," ","c","h","a","n","g","e">>},
       text |-> <<"n","o"," ","c","o","n","t","e","n","t"," ","c","h","a","n","g","e"," ","i","n"," ","l","a","s","t"," ","a","r","t","i","c","l","e">>],
      [name |-> "auto-reviewed", words |-> {<<"u","s","e","r"," ","w","a","s"," ","a","u","t","o","-","r","e","v","i","e","w","e","d">>},
       text |-> <<"u","s","e","r"," ","w","a","s"," ","a","u","t","o","-","r","e","v","i","e","w","e","d">>],
      [name |-> "ORES", words |-> {<<"o","r","e","s">>, <<"g","o","o","d","f","a","i","t","h">>, <<"d","a","m","a","g","i","n","g">>},
       text |-> <<"O","R","E","S"," ","s","c","o","r","e"," ">>],
      [name |-> "revert", words |-> {<<"r","e","v","e","r","t"," ","t","o"," ","p","r","e","v","i","o","u","s","l","y"," ","r","e","v","i","e","w","e","d"," ","c","o","n","t","e","n","t">>},
       text |-> <<"r","e","v","e","r","t"," ","t","o"," ","p","r","e","v","i","o","u","s","l","y"," ","r","e","v","i","e","w","e","d"," ","c","o","n","t","e","n","t">>]>>
IsCanonicalTextOf(text, pattern) ==
    IF pattern.name = "ORES"
    THEN Len(text) > Len(pattern.text) /\ SubSeq(text, 1, Len(pattern.text)) = pattern.text
    ELSE text = pattern.text
\* the reason of the decision given ("" when it has none)
GivenReason == IF "reason" \in given.keys THEN given.reason ELSE <<>>
\* the patterns the reason given matches, by the way of matching
MatchedBy(Matches(_, _)) ==
    {k \in 1..Len(KnownPatterns) : \E w \in KnownPatterns[k].words : Matches(GivenReason, w)}
\* the reason is replaced by the canonical text of the first pattern it
\* matches, and left as it is when it matches none
NormalizedBy(Matches(_, _)) ==
    IF MatchedBy(Matches) = {} THEN extracted = GivenReason
    ELSE LET first == CHOOSE k \in MatchedBy(Matches) : \A j \in MatchedBy(Matches) : k <= j
         IN  IsCanonicalTextOf(extracted, KnownPatterns[first])

\* C23 as claimed: a pattern is matched at the start of the reason
C23_NormalizedByPrefix ==
    op = "extracted" => NormalizedBy(BeginsWithIgnoringCase)

\* C23 amended: a pattern is matched anywhere in the reason; the first
\* pattern of the order bot, no-content-change, auto-reviewed, ORES, revert
\* that is in the reason gives the text, and a reason with none of them in
\* it is returned unchanged
C23_NormalizedBySubstring ==
    op = "extracted" =>
        /\ NormalizedBy(HasIgnoringCase)
        /\ given = [keys |-> {"reason"}, reason |-> <<"O","R","E","S"," ","s","c","o","r","e"," ","g","o","o","d","f","a","i","t","h","=","0",".","5","3",","," ","d","a","m","a","g","i","n","g","=","0",".","2","5","1">>]
               => extracted = <<"O","R","E","S"," ","s","c","o","r","e"," ","g","o","o","d","f","a","i","t","h","=","0",".","5","3",","," ","d","a","m","a","g","i","n","g","=","0",".","2","5","1">>
        /\ given = [keys |-> {"reason"}, reason |-> <<"R","e","v","e","r","t"," ","t","o"," ","p","r","e","v","i","o","u","s","l","y"," ","r","e","v","i","e","w","e","d"," ","c","o","n","t","e","n","t">>]
               => extracted = <<"r","e","v","e","r","t"," ","t","o"," ","p","r","e","v","i","o","u","s","l","y"," ","r","e","v","i","e","w","e","d"," ","c","o","n","t","e","n","t">>

\* "The User was a bot." does not begin with a pattern and is normalized
C23_Witness ==
    /\ op = "extracted"
    /\ given = [keys |-> {"reason"}, reason |-> <<"T","h","e"," ","U","s","e","r"," ","w","a","s"," ","a"," ","b","o","t",".">>]
    /\ extracted = <<"u","s","e","r"," ","w","a","s"," ","a"," ","b","o","t">>

(***************************************************************************)
(* C25: non-approved results never influence the approval.                 *)
(* generate_approval_comment(results) equals generate_approval_comment of  *)
(* the results restricted to status 'approve', so the comment names only   *)
(* approved revisions, and a blocked or manual revision with a revid below *)
(* the highest approved revid neither lowers the approval target nor       *)
(* appears in the comment.                                                 *)
(***************************************************************************)
\* the results restricted to status 'approve', in their order
RestrictedToApprove(rs) == SelectSeq(rs, LAMBDA e : e.status = "approve")
\* the entries that are not approved and have a revid
NotApprovedOf(rs) ==
    {rs[i] : i \in {j \in 1..Len(rs) : rs[j].status # "approve" /\ "revid" \in rs[j].keys}}
\* C25: the call gave what it gives for the approved entries alone; what it
\* returned names the highest approved revid and none of the others'
C25_OnlyApprovedCount ==
    op = "generated" =>
        /\ gen = generate_approval_comment(RestrictedToApprove(args))
        /\ GenerateReturned =>
               /\ IsHighestApproved(args, gen.revid)
               /\ \A e \in NotApprovedOf(args) : NumberCount(gen.comment, Numeral(e.revid)) = 0

\* a blocked revision and one left to manual review, both below the one
\* approved revision: the target is the approved one and the comment names
\* neither of the others
C25_Witness ==
    /\ op = "generated"
    /\ Len(args) = 3
    /\ args[1].status = "blocked" /\ args[1].revid = 12345
    /\ args[2].status = "approve" /\ args[2].revid = 12347 /\ args[2].keys = AllKeys
    /\ args[3].status = "manual" /\ args[3].revid = 12346
    /\ gen.revid = 12347
    /\ NumberCount(gen.comment, Numeral(12347)) = 1
    /\ NumberCount(gen.comment, Numeral(12345)) = 0
    /\ NumberCount(gen.comment, Numeral(12346)) = 0

(***************************************************************************)
(* C26: for results with pairwise distinct revids, the output of           *)
(* generate_approval_comment does not depend on the order of the input     *)
(* list: every permutation of the same results yields the same (revid,     *)
(* comment).                                                               *)
(***************************************************************************)
\* the lists that hold the entries of rs in another order
Reorderings(rs) ==
    {[i \in 1..Len(rs) |-> rs[p[i]]] : p \in Permutations(1..Len(rs))}
PairwiseDistinctRevids(rs) ==
    \A i, j \in 1..Len(rs) : i # j => rs[i].revid # rs[j].revid
\* C26: what the call gave is what it gives for the same entries in any
\* other order
C26_OrderIndependent ==
    (op = "generated" /\ PairwiseDistinctRevids(args)) =>
        \A other \in Reorderings(args) : generate_approval_comment(other) = gen

\* three approved revisions handed over highest first, the middle one with
\* a reason of its own: the comment names them lowest first
C26_Witness ==
    /\ op = "generated"
    /\ Len(args) = 3
    /\ ApprovedComplete(args)
    /\ args[1].revid = 12347 /\ args[2].revid = 12346 /\ args[3].revid = 12345
    /\ \A i \in 1..3 : args[i].status = "approve"
    /\ args[1].reason = args[3].reason /\ args[2].reason # args[1].reason
    /\ gen.revid = 12347
    /\ \E i, j, k \in 1..Len(gen.comment) :
           /\ i < j /\ j < k
           /\ OccursAt(gen.comment, Numeral(12345), i)
           /\ OccursAt(gen.comment, Numeral(12346), j)
           /\ OccursAt(gen.comment, Numeral(12347), k)

(***************************************************************************)
(* C27: generate_approval_comment and get_approval_summary leave the       *)
(* caller's results list unchanged: the same entries in the same order     *)
(* (sorting is done on a separate list), and no entry's revid or decision  *)
(* is modified.                                                            *)
(***************************************************************************)
\* C27: when either call is over the caller's list holds the entries it
\* held when the call was made, each as it was and in the same order
C27_CallerListUnchanged ==
    op \in {"generated", "summarized", "summarize_raised"} =>
        /\ Len(lists.autoreview_results) = Len(args)
        /\ \A i \in 1..Len(args) :
               /\ lists.autoreview_results[i].keys = args[i].keys
               /\ lists.autoreview_results[i].revid = args[i].revid
               /\ lists.autoreview_results[i].status = args[i].status
               /\ lists.autoreview_results[i].reason = args[i].reason

\* three approved revisions handed over highest first: the list the call
\* sorted is in ascending order, the caller's list is still highest first
C27_Witness ==
    /\ op = "generated"
    /\ Len(args) = 3
    /\ ApprovedComplete(args)
    /\ args[1].revid = 12347 /\ args[2].revid = 12346 /\ args[3].revid = 12345
    /\ \A i \in 1..3 : args[i].status = "approve"
    /\ lists.revisions_to_approve[1].revid = 12345
    /\ lists.revisions_to_approve[3].revid = 12347
    /\ lists.autoreview_results[1].revid = 12347
    /\ gen.revid = 12347

(***************************************************************************)
(* C28: preview_approval_comment never invokes the external approval       *)
(* action, and for the same results and prefix it reports can_approve=True *)
(* with exactly the rev_id and comment that process_and_approve_revisions  *)
(* would pass to the approval action (can_approve=False exactly when       *)
(* process_and_approve_revisions would report "No revisions can be         *)
(* approved").                                                             *)
(***************************************************************************)
PreviewCalled == op \in {"previewed", "preview_raised"}
\* what process_and_approve_revisions does with the results and the prefix
\* of the preview, when the approval action does did
WouldProcess(did) == process_and_approve_revisions(args, prefix, did)
\* it hands rev_id and text to the approval action, once
Passes(would, rev_id, text) ==
    /\ Len(would.calls) = 1
    /\ would.calls[1].revid = rev_id
    /\ would.calls[1].comment = text
    /\ ~would.calls[1].unapprove
\* it reports that nothing can be approved
ReportsNothing(would) ==
    /\ would.ret.exc = ""
    /\ "message" \in would.ret.keys
    /\ would.ret.message = "No revisions can be approved"
CanApprove == preview.exc = "" /\ preview.can_approve
\* C28: no invocation of the action by the preview; can_approve=True goes
\* with the rev_id and the comment the action would be handed, and, for
\* approved entries that are complete results, can_approve=False with the
\* report that nothing can be approved
C28_PreviewAgreesWithProcess ==
    PreviewCalled =>
        /\ calls = <<>>
        /\ \A did \in {"success", "error", "raise"} :
               LET would == WouldProcess(did)
               IN  /\ CanApprove <=> would.calls # <<>>
                   /\ CanApprove =>
                          /\ {"rev_id", "comment"} \subseteq preview.keys
                          /\ Passes(would, preview.rev_id, preview.comment)
                   /\ ReportsNothing(would) =>
                          /\ ~CanApprove
                          /\ preview.message = "No revisions can be approved"
                   /\ (ApprovedComplete(args) /\ ~CanApprove) => ReportsNothing(would)

\* two approved revisions under the long prefix: the preview shows the
\* comment cut to 500 characters, the one the action would be handed
C28_Witness ==
    /\ op = "previewed"
    /\ Len(prefix) = LongPrefixLen
    /\ Cardinality(ApprovedOf(args)) = 2
    /\ preview.can_approve
    /\ preview.rev_id = 12347
    /\ Len(preview.comment) = 500
    /\ Passes(WouldProcess("success"), 12347, preview.comment)
    /\ calls = <<>>

(***************************************************************************)
(* C29: for every results list, the highest_approved_revid reported by     *)
(* get_approval_summary equals the revid returned by                       *)
(* generate_approval_comment (both None when nothing is approved), so the  *)
(* summary attached to a successful outcome always names the revision that *)
(* was submitted for approval.                                             *)
(***************************************************************************)
\* what generate_approval_comment gives for the results of the call
Generated == generate_approval_comment(args)
\* C29: the summary of a results list and the comment generated from it
\* name the same revid, None when nothing is approved; the summary of a
\* successful outcome names the revid handed to the approval action
C29_SummaryNamesTheTarget ==
    /\ op \in {"summarized", "summarize_raised"} =>
           /\ ApprovedComplete(args) => (summary.exc = "" /\ Generated.exc = "")
           /\ (summary.exc = "" /\ Generated.exc = "") =>
                  summary.highest_approved_revid = Generated.revid
           /\ ~HasApproved(args) =>
                  (summary.highest_approved_revid = None /\ Generated.revid = None)
    /\ (op = "processed" /\ proc.success) =>
           /\ Len(calls) = 1
           /\ "summary" \in proc.keys
           /\ proc.summary.highest_approved_revid = calls[1].call.revid
           /\ proc.summary.highest_approved_revid = proc.rev_id

\* a manual revision above the one approved revision: the summary names
\* the approved one, as the generated comment does
C29_Witness ==
    /\ op = "summarized"
    /\ Len(args) = 2
    /\ args[1].status = "manual" /\ args[1].revid = 12347
    /\ args[2].status = "approve" /\ args[2].revid = 12345 /\ args[2].keys = AllKeys
    /\ summary.highest_approved_revid = 12345
    /\ Generated.revid = 12345

(***************************************************************************)
(* C30: fetch_diff caches only successful fetches.  A request for a URL    *)
(* whose non-empty HTML is cached is answered from the cache without any   *)
(* external request, a failed external request leaves the cache unchanged  *)
(* and returns an error response, and a successful fetch stores the        *)
(* fetched HTML under its URL.                                             *)
(***************************************************************************)
\* non-empty HTML is cached under the URL u
CachedHtml(u) == u \in DOMAIN cache /\ cache[u] # ""
\* the step in which a request for u comes in
RequestFor(u) == served' = served + 1 /\ url' = u
\* the step in which the external request ends
ExternalRequestEnds == op = "diff_requesting" /\ op' = "diff_returned"
\* the cache after the step is the cache before it, with text under u
StoredUnder(u, text) ==
    /\ DOMAIN cache' = DOMAIN cache \cup {u}
    /\ cache'[u] = text
    /\ \A k \in DOMAIN cache : k # u => cache'[k] = cache[k]
\* the cache after the step is the cache before it without one entry
EntryExpired ==
    \E k \in DOMAIN cache :
        /\ DOMAIN cache' = DOMAIN cache \ {k}
        /\ \A j \in DOMAIN cache' : cache'[j] = cache[j]
\* C30: a request for cached non-empty HTML is answered with it and sends
\* nothing; a failed external request changes nothing in the cache and is
\* answered with an error; a successful one stores the HTML fetched under
\* the URL requested; and nothing else is ever stored
C30_CachesOnlySuccessfulFetches ==
    [][/\ \A u \in {"https://a.example/diff", "https://b.example/diff"} :
              (RequestFor(u) /\ CachedHtml(u)) =>
                  /\ op' = "diff_returned"
                  /\ diff_response'.status = 200
                  /\ diff_response'.body = cache[u]
                  /\ sent' = sent
                  /\ cache' = cache
       /\ (ExternalRequestEnds /\ reply'.kind # "ok") =>
              /\ cache' = cache
              /\ diff_response'.status = 500
              /\ diff_response'.error # ""
       /\ (ExternalRequestEnds /\ reply'.kind = "ok") =>
              /\ StoredUnder(url, reply'.text)
              /\ diff_response'.status = 200
              /\ diff_response'.body = reply'.text
       /\ cache' # cache =>
              \/ ExternalRequestEnds /\ reply'.kind = "ok"
              \/ EntryExpired
      ]_vars

\* three requests: one URL was fetched and stored, then answered from the
\* cache, and then the request for the other URL failed: two external
\* requests in all, an error response, and only the first URL in the cache
C30_Witness ==
    /\ op = "diff_returned"
    /\ served = 3 /\ sent = 2
    /\ url = "https://b.example/diff"
    /\ reply.kind = "http_error"
    /\ diff_response.status = 500
    /\ DOMAIN cache = {"https://a.example/diff"}
    /\ cache["https://a.example/diff"] = "<table>1</table>"

=============================================================================
